---- MODULE Spec2Model ----
(***************************************************************************)
(* Model of the inventory chat action processChatMessage and the services  *)
(* it drives: the classifier, the inventory gateway and the bulk-upload    *)
(* parser.  Every await of the handler is one step of the state machine;   *)
(* the local code between two awaits belongs to the step that precedes it. *)
(***************************************************************************)
EXTENDS Integers, Sequences, FiniteSets, TLC

(***************************************************************************)
(* JavaScript values.  A value carries its type tag so that undefined,     *)
(* null, the empty string and 0 stay distinct, as they do in the code.     *)
(***************************************************************************)
Undef == [t |-> "undefined"]

Null == [t |-> "null"]

Str(s) == [t |-> "string", v |-> s]

Num(n) == [t |-> "number", v |-> n]

Bool(b) == [t |-> "boolean", v |-> b]

Obj(f) == [t |-> "object", f |-> f]

\* JavaScript truthiness: !x is ~Truthy(x)
Truthy(x) ==
  CASE x.t = "undefined" -> FALSE
    [] x.t = "null" -> FALSE
    [] x.t = "string" -> x.v # ""
    [] x.t = "number" -> x.v # 0
    [] x.t = "boolean" -> x.v
    [] OTHER -> TRUE

\* x !== null && x !== undefined
Present(x) == x.t # "undefined" /\ x.t # "null"

\* optional chaining obj?.key on an extracted data object
Get(d, k) == IF d.t = "object" THEN d.f[k] ELSE Undef

\* the elements of a sequence
Range(s) == {s[i] : i \in 1..Len(s)}

(***************************************************************************)
(* Bounds of the model.                                                    *)
(***************************************************************************)
\* most records a name search returns
MaxMatches == 3

\* most data rows of an uploaded file
MaxRows == 2

\* most pages of a list traversal
MaxPages == 2

\* most records on one page of a list traversal
PageSize == 1

(***************************************************************************)
(* Program constants.                                                      *)
(***************************************************************************)
\* z.string().max(31) on the item name
MaxNameLen == 31

\* limit of the name search issued for read and update
SearchLimit == 10

(***************************************************************************)
(* The remote system's items.                                              *)
(***************************************************************************)
ItemIds == {"I1", "I2", "I3"}

ItemName(id) ==
  CASE id = "I1" -> "Widget"
    [] id = "I2" -> "Widget Pro"
    [] OTHER -> "Super Widget"

ItemPrice(id) == IF id = "I1" THEN Str("50.00") ELSE Undef

\* a name of 32 characters, one more than the schema allows
LongName == "Widget-0123456789-0123456789-012"

(***************************************************************************)
(* Records of the remote system.                                           *)
(***************************************************************************)
\* an inventory item as the gateway returns it
Item(id, rev) ==
  [id |-> id, name |-> ItemName(id), salesPrice |-> ItemPrice(id),
   revisionNumber |-> Str(ToString(rev))]

\* sequences of distinct item ids of length 0..n: what a list call may return
IdSeqs(n) ==
  UNION {{s \in [1..k -> ItemIds] : \A i, j \in 1..k : i # j => s[i] # s[j]} :
           k \in 0..n}

\* a call made on an external collaborator (gateway, classifier, phrasing)
Call(op, id, body) ==
  [op |-> op, itemId |-> id, body |-> body, result |-> Undef]

\* a call together with the record it returned
Returned(call, record) == [call EXCEPT !.result = record]

GatewayOps == {"list", "retrieve", "create", "update", "adjustment"}

\* the calls of kind op made so far, in order
CallsOf(log, op) == SelectSeq(log, LAMBDA c : c.op = op)

\* the gateway calls made so far, in order
GatewayCalls(log) == SelectSeq(log, LAMBDA c : c.op \in GatewayOps)

(***************************************************************************)
(* Schemas (zod).  safeParse is modelled by the paths of the issues it     *)
(* reports, in the order of the schema's keys; no issue means success.     *)
(***************************************************************************)
\* the fields of an extracted data object that the model carries
DataKeys ==
  <<"name", "incomeAccountId", "cogsAccountId", "assetAccountId",
    "salesPrice", "quantityOnHand">>

\* z.string().min(1).max(31)
NameOk(v) == v.t = "string" /\ Len(v.v) >= 1 /\ Len(v.v) <= MaxNameLen

\* z.string().min(1)
RequiredStringOk(v) == v.t = "string" /\ Len(v.v) >= 1

\* z.string().optional()
OptionalStringOk(v) == v.t = "undefined" \/ v.t = "string"

\* z.number().optional()
OptionalNumberOk(v) == v.t = "undefined" \/ v.t = "number"

\* CreateFieldOk with the COGS account left optional
CreateFieldOk_CogsOptional(k, v) ==
  CASE k = "name" -> NameOk(v)
    [] k \in {"incomeAccountId", "assetAccountId"} -> RequiredStringOk(v)
    [] k = "quantityOnHand" -> OptionalNumberOk(v)
    [] OTHER -> OptionalStringOk(v)

CreateFieldOk(k, v) ==
  CASE k = "name" -> NameOk(v)
    [] k \in {"incomeAccountId", "cogsAccountId", "assetAccountId"} ->
         RequiredStringOk(v)
    [] k = "quantityOnHand" -> OptionalNumberOk(v)
    [] OTHER -> OptionalStringOk(v)

\* CreateInventoryItemSchema.safeParse(data): validation.error.errors paths
CreateInventoryItemSchemaIssues(data) ==
  IF data.t # "object" THEN <<"">>
  ELSE SelectSeq(DataKeys, LAMBDA k : ~CreateFieldOk(k, data.f[k]))

\* the keys UpdateInventoryItemSchema declares, among the model's fields
UpdateKeys ==
  <<"name", "salesPrice", "incomeAccountId", "cogsAccountId", "assetAccountId">>

UpdateFieldOk(k, v) ==
  CASE k = "name" -> v.t = "undefined" \/ NameOk(v)
    [] OTHER -> OptionalStringOk(v)

\* UpdateInventoryItemSchema.safeParse(updateData): issue paths
UpdateInventoryItemSchemaIssues(revisionNumber, f) ==
  (IF RequiredStringOk(revisionNumber) THEN <<>> ELSE <<"revisionNumber">>)
    \o SelectSeq(UpdateKeys, LAMBDA k : ~UpdateFieldOk(k, f[k]))

\* UpdateInventoryItemSchemaData that keeps the keys the schema does not declare
UpdateInventoryItemSchemaData_Passthrough(revisionNumber, f) ==
  f @@ [revisionNumber |-> revisionNumber]

\* validation.data of UpdateInventoryItemSchema: undeclared keys are stripped
UpdateInventoryItemSchemaData(revisionNumber, f) ==
  [k \in Range(UpdateKeys) |-> f[k]] @@ [revisionNumber |-> revisionNumber]

\* CreateInventoryAdjustmentSchema.safeParse(adjustmentData): issue paths
CreateInventoryAdjustmentSchemaIssues(a) ==
  (IF RequiredStringOk(a.accountId) THEN <<>> ELSE <<"accountId">>)
    \o (IF Len(a.lines) >= 1 THEN <<>> ELSE <<"lines">>)
    \o (IF \A i \in 1..Len(a.lines) : RequiredStringOk(a.lines[i].itemId)
        THEN <<>> ELSE <<"lines.itemId">>)
    \o (IF \A i \in 1..Len(a.lines) : OptionalNumberOk(a.lines[i].newQuantity)
        THEN <<>> ELSE <<"lines.adjustQuantity.newQuantity">>)

(***************************************************************************)
(* Classifier output (InventoryOperationSchema) and the request inputs.    *)
(***************************************************************************)
\* values the classifier may put in a string field of data
AccountValues == {Undef, Null, Str(""), Str("A1")}

NameValues == {Undef, Null, Str(""), Str("Gadget"), Str(LongName)}

PriceValues == {Undef, Null, Str("55.00")}

QuantityValues == {Undef, Null, Num(0), Num(5)}

\* data objects of a create request
CreateData ==
  {Obj(f) : f \in [name : NameValues, incomeAccountId : AccountValues,
                   cogsAccountId : AccountValues, assetAccountId : AccountValues,
                   salesPrice : {Undef, Str("55.00")},
                   quantityOnHand : {Undef}]}

\* data objects of an update request, as the classifier's JSON holds them:
\* the JSON may carry a revisionNumber, a key the schema does not declare
UpdateData ==
  {Obj(f) : f \in [name : NameValues, incomeAccountId : {Undef},
                   cogsAccountId : {Undef}, assetAccountId : {Undef},
                   salesPrice : PriceValues, quantityOnHand : QuantityValues,
                   revisionNumber : {Undef, Str("99")}]}

\* InventoryOperationSchemaData that keeps the keys the schema does not declare
InventoryOperationSchemaData_Passthrough(d) == d

\* InventoryOperationSchema.parse on data: z.object strips undeclared keys
InventoryOperationSchemaData(d) ==
  IF d.t = "object" THEN Obj([k \in Range(DataKeys) |-> d.f[k]]) ELSE d

\* filters of a list request
ListFilters ==
  {Obj(f) : f \in [limit : {Undef, Null, Num(0), Num(5)},
                   nameContains : {Undef, Str("Wid")},
                   nameStartsWith : {Undef}, nameEndsWith : {Undef},
                   status : {Undef, Str("active")}]}

Operation(kind, itemId, itemName, data, filters, needsAccountIds) ==
  [operation |-> kind, intent |-> Undef, itemId |-> itemId,
   itemName |-> itemName, data |-> data, filters |-> filters,
   needsAccountIds |-> needsAccountIds]

\* the intent the classifier may give with an operation it does not understand
Intents == {Undef, Null, Str(""), Str("You want to delete an item")}

\* what parseInventoryCommand may return
Operations ==
  {[Operation("unknown", Undef, Undef, Undef, Undef, Undef)
      EXCEPT !.intent = intent] : intent \in Intents}
    \cup {Operation("list", Undef, Undef, Undef, fl, Undef) :
            fl \in ListFilters \cup {Undef}}
    \cup {Operation("read", id, nm, Undef, Undef, Undef) :
            id \in {Undef, Str("I1")},
            nm \in {Undef, Str(""), Str("Widget"), Str("Bolt")}}
    \cup {Operation("create", Undef, Undef, InventoryOperationSchemaData(d),
                     Undef, n) :
            d \in CreateData \cup {Undef, Null}, n \in {Undef, Bool(TRUE)}}
    \cup {Operation("update", id, nm, InventoryOperationSchemaData(d),
                     Undef, Undef) :
            id \in {Undef, Str("I1")}, nm \in {Undef, Str("Widget")},
            d \in UpdateData \cup {Undef}}

NoOperation == Operation("none", Undef, Undef, Undef, Undef, Undef)

\* process configuration
Environments ==
  [endUserId : {Undef, Str(""), Str("end-user-1")},
   adjustmentAccountId : {Undef, Str("acct-adj")},
   openaiApiKey : {Undef, Str("sk-1")},
   conductorApiKey : {Undef, Str("ck-1")}]

(***************************************************************************)
(* Outcomes and replies of processChatMessage.                             *)
(***************************************************************************)
Reply(kind, term, fields, entries) ==
  [kind |-> kind, term |-> term, fields |-> fields, entries |-> entries]

NoReply == Reply("none", Undef, <<>>, <<>>)

Outcome(success, error, reply, data) ==
  [success |-> success, error |-> error, reply |-> reply, data |-> data]

NoOutcome == Outcome(FALSE, Undef, NoReply, Undef)

\* the numbered lines of a disambiguation reply for read: idx + 1, name, id, price
ReadEntries(items) ==
  [i \in 1..Len(items) |->
     [idx |-> i, name |-> items[i].name, id |-> items[i].id,
      price |-> items[i].salesPrice]]

\* UpdateEntries numbered from 0
UpdateEntries_ZeroBased(items) ==
  [i \in 1..Len(items) |->
     [idx |-> i - 1, name |-> items[i].name, id |-> items[i].id, price |-> Undef]]

\* the numbered lines of a disambiguation reply for update: idx + 1, name, id
UpdateEntries(items) ==
  [i \in 1..Len(items) |->
     [idx |-> i, name |-> items[i].name, id |-> items[i].id, price |-> Undef]]

\* FirstItem ignoring the search result
FirstItem_Fixed(items) == Item("I1", 1)

\* the item a name search with one match resolves to: items.data[0]
FirstItem(items) == items[1]

\* NotFound with a fixed text that leaves the name out
NotFound_NoName(name) ==
  Outcome(FALSE, Str("Item not found"), Reply("not-found", Undef, <<>>, <<>>),
          Undef)

\* zero matches, read and update: the searched name is quoted in the reply
NotFound(name) ==
  Outcome(FALSE, Str("Item not found"), Reply("not-found", name, <<>>, <<>>),
          Undef)

\* several matches, read: a numbered list, returned with success true
ReadMultipleMatches(name, items) ==
  Outcome(TRUE, Undef,
          Reply("multiple-matches", name, <<>>, ReadEntries(items)),
          [t |-> "list", v |-> items])

\* several matches, update: a numbered list, returned with success false
UpdateMultipleMatches(name, items) ==
  Outcome(FALSE, Str("Multiple items found"),
          Reply("multiple-matches", name, <<>>, UpdateEntries(items)),
          [t |-> "list", v |-> items])

\* result values: a tagged union of what the handler stores in `result`
ItemResult(item) == [t |-> "item", v |-> item]

ListResult(items, nextCursor) ==
  [t |-> "list", v |-> items, nextCursor |-> nextCursor]

AdjustmentResult(adj) == [t |-> "adjustment", v |-> adj]

(***************************************************************************)
(* Bulk upload parser (ExcelService).  A data record is modelled by the    *)
(* cells its recognised columns resolve to: a trimmed string, or undefined *)
(* for an empty or missing cell.                                           *)
(***************************************************************************)
\* actionRaw.toLowerCase().trim() on the action cells of the model
LowerTrim(s) ==
  CASE s = "CREATE" -> "create"
    [] s = "Update" -> "update"
    [] s = "DELETE" -> "delete"
    [] OTHER -> s

\* getNumberValue: parseFloat of the cell, undefined when it is not a number
GetNumberValue(cell) ==
  CASE cell.t = "undefined" -> Undef
    [] cell.v = "50" -> Num(50)
    [] cell.v = "0" -> Num(0)
    [] OTHER -> Undef

\* most columns of a sheet record in the column lookup
MaxColumns == 3

\* the aliases parseRow passes for quantityOnHand
QuantityAliases ==
  <<"QuantityOnHand", "quantityonhand", "QUANTITYONHAND", "Quantity On Hand",
    "Quantity">>

\* the column headers of the sheet records of the model
Headers == {"Quantity", "quantityonhand", "quantity on hand", " QUANTITY ", "Qty"}

\* the cells of the sheet records of the model
Cells == {Null, Str(""), Str(" "), Str(" 7 "), Num(3)}

\* key.toLowerCase().trim() on the headers and aliases of the model
Normalize(s) ==
  CASE s = "QuantityOnHand" -> "quantityonhand"
    [] s = "QUANTITYONHAND" -> "quantityonhand"
    [] s = "Quantity On Hand" -> "quantity on hand"
    [] s = "Quantity" -> "quantity"
    [] s = " QUANTITY " -> "quantity"
    [] s = "Qty" -> "qty"
    [] OTHER -> s

\* String(value).trim() on the cells of the model
StringTrim(value) ==
  CASE value = Str(" ") -> ""
    [] value = Str(" 7 ") -> "7"
    [] value.t = "number" -> ToString(value.v)
    [] OTHER -> value.v

\* a column of a sheet record: its header and its cell
Column(key, value) == [key |-> key, value |-> value]

\* sheet records: columns with distinct headers, in the order of the sheet
SheetRows ==
  UNION {{r \in [1..n -> {Column(k, v) : k \in Headers, v \in Cells}] :
            \A i, j \in 1..n : i # j => r[i].key # r[j].key} :
           n \in 0..MaxColumns}

\* row[name]
CellOf(row, name) ==
  IF \E i \in 1..Len(row) : row[i].key = name
  THEN row[CHOOSE i \in 1..Len(row) : row[i].key = name].value
  ELSE Undef

\* value !== undefined && value !== null && value !== ''
NonEmpty(value) == value # Undef /\ value # Null /\ value # Str("")

RECURSIVE ExactMatch(_, _, _)
\* the first loop of getColumnValue, from alias i on
ExactMatch(row, possibleNames, i) ==
  IF i > Len(possibleNames) THEN Undef
  ELSE IF NonEmpty(CellOf(row, possibleNames[i]))
  THEN Str(StringTrim(CellOf(row, possibleNames[i])))
  ELSE ExactMatch(row, possibleNames, i + 1)

RECURSIVE NormalizedMatch(_, _, _)
\* the second loop of getColumnValue, from column j on
NormalizedMatch(row, possibleNames, j) ==
  IF j > Len(row) THEN Undef
  ELSE IF /\ Normalize(row[j].key)
               \in {Normalize(possibleNames[i]) : i \in 1..Len(possibleNames)}
          /\ NonEmpty(row[j].value)
  THEN Str(StringTrim(row[j].value))
  ELSE NormalizedMatch(row, possibleNames, j + 1)

\* GetColumnValue without the case-insensitive second loop
GetColumnValue_ExactOnly(row, possibleNames) == ExactMatch(row, possibleNames, 1)

\* getColumnValue: exact aliases first, then headers compared after
\* lower-casing and trimming
GetColumnValue(row, possibleNames) ==
  IF ExactMatch(row, possibleNames, 1) # Undef
  THEN ExactMatch(row, possibleNames, 1)
  ELSE NormalizedMatch(row, possibleNames, 1)

RawRow(action, itemId, name, salesPrice, quantityOnHand, cogsAccountId) ==
  [action |-> action, itemId |-> itemId, name |-> name,
   salesPrice |-> salesPrice, quantityOnHand |-> quantityOnHand,
   incomeAccountId |-> IF action = Str("CREATE") THEN Str("A1") ELSE Undef,
   cogsAccountId |-> cogsAccountId,
   assetAccountId |-> IF action = Str("CREATE") THEN Str("A3") ELSE Undef]

\* the data records an uploaded sheet may hold
RawRows ==
  {RawRow(Undef, Undef, Str("Gadget"), Undef, Undef, Undef),
   RawRow(Str("DELETE"), Str("I1"), Undef, Undef, Undef, Undef),
   RawRow(Str("CREATE"), Undef, Str("Gadget"), Str("55.00"), Str("50"), Str("A2")),
   RawRow(Str("CREATE"), Undef, Str(LongName), Undef, Undef, Str("A2")),
   RawRow(Str("CREATE"), Undef, Undef, Undef, Undef, Str("A2")),
   RawRow(Str("CREATE"), Undef, Str("Gadget"), Undef, Undef, Undef),
   RawRow(Str("Update"), Str("I1"), Undef, Undef, Str("50"), Undef),
   RawRow(Str("Update"), Str("I2"), Str("Gadget"), Str("55.00"), Undef, Undef),
   RawRow(Str("Update"), Undef, Str("Widget"), Undef, Str("abc"), Undef),
   RawRow(Str("Update"), Str("I1"), Str(LongName), Undef, Undef, Undef),
   RawRow(Str("Update"), Undef, Undef, Str("55.00"), Undef, Undef)}

\* uploaded files: the data records of the first sheet
Files ==
  {[t |-> "file", rows |-> r] :
     r \in UNION {[1..n -> RawRows] : n \in 0..MaxRows}}

RowFailure(msg) == [ok |-> FALSE, error |-> msg]

RowSuccess(row) == [ok |-> TRUE, row |-> row]

\* ValidAction that lets every action through
ValidAction_Any(action) == TRUE

\* !(action !== 'create' && action !== 'update')
ValidAction(action) == action = "create" \/ action = "update"

\* MissingAccounts that does not look at the COGS account
MissingAccounts_CogsIgnored(parsed) ==
  ~Truthy(parsed.incomeAccountId) \/ ~Truthy(parsed.assetAccountId)

\* !parsed.incomeAccountId || !parsed.cogsAccountId || !parsed.assetAccountId
MissingAccounts(parsed) ==
  \/ ~Truthy(parsed.incomeAccountId)
  \/ ~Truthy(parsed.cogsAccountId)
  \/ ~Truthy(parsed.assetAccountId)

\* parseRow: the typed row of a data record, or the error it throws
ParseRow(row, rowNumber) ==
  IF ~Truthy(row.action)
  THEN RowFailure("Missing required column: Action")
  ELSE LET action == LowerTrim(row.action.v)
           parsed == [rowNumber |-> rowNumber, action |-> action,
                      itemId |-> row.itemId, name |-> row.name,
                      salesPrice |-> row.salesPrice,
                      quantityOnHand |-> GetNumberValue(row.quantityOnHand),
                      incomeAccountId |-> row.incomeAccountId,
                      cogsAccountId |-> row.cogsAccountId,
                      assetAccountId |-> row.assetAccountId]
       IN IF ~ValidAction(action)
          THEN RowFailure("Invalid action")
          ELSE IF action = "create" /\ ~Truthy(parsed.name)
          THEN RowFailure("CREATE operation requires Name")
          ELSE IF action = "create" /\ MissingAccounts(parsed)
          THEN RowFailure("CREATE operation requires IncomeAccountId, CogsAccountId, and AssetAccountId")
          ELSE IF action = "update" /\ ~Truthy(parsed.itemId) /\ ~Truthy(parsed.name)
          THEN RowFailure("UPDATE operation requires either ItemId or Name")
          ELSE RowSuccess(parsed)

RECURSIVE ParseRows(_, _)
\* the row loop of parseInventoryExcel over the first n data records:
\* record i (0-based) is reported as row i + 2
ParseRows(jsonData, n) ==
  IF n = 0 THEN [rows |-> <<>>, errors |-> <<>>]
  ELSE LET sofar == ParseRows(jsonData, n - 1)
           r == ParseRow(jsonData[n], n + 1)
       IN IF r.ok
          THEN [sofar EXCEPT !.rows = Append(@, r.row)]
          ELSE [sofar EXCEPT !.errors =
                  Append(@, [rowNumber |-> n + 1, error |-> r.error])]

\* parseInventoryExcel: the ExcelParseResult of a sheet's data records
ParseInventoryExcel(jsonData) ==
  LET p == ParseRows(jsonData, Len(jsonData))
  IN [success |-> Len(p.errors) = 0, rows |-> p.rows, errors |-> p.errors,
      totalRows |-> Len(jsonData), validRows |-> Len(p.rows),
      invalidRows |-> Len(p.errors)]

NoParseResult ==
  [success |-> FALSE, rows |-> <<>>, errors |-> <<>>, totalRows |-> 0,
   validRows |-> 0, invalidRows |-> 0]

\* the counters and lists of the file branch
NoResults ==
  [total |-> 0, successful |-> 0, failed |-> 0, created |-> 0, updated |-> 0,
   errors |-> <<>>, successfulItems |-> <<>>]

(***************************************************************************)
(* State.                                                                  *)
(***************************************************************************)
VARIABLES
  env,        \* process configuration (process.env)
  remoteRev,  \* the remote system: revision number of every item
  pc,         \* position of the request in processChatMessage
  input,      \* the request: message and file
  operation,  \* what the classifier returned
  loc,        \* the handler's local variables
  bulk,       \* the file branch's local variables
  calls,      \* the calls made on external collaborators, in order
  outcome,    \* the value processChatMessage returns
  rest,       \* a request on the customers routes, the health check or listAccounts
  race,       \* two update requests running at the same time
  lookup      \* one call of the bulk parser's column lookup

vars ==
  <<env, remoteRev, pc, input, operation, loc, bulk, calls, outcome, rest, race,
    lookup>>

NoItem == [id |-> "", name |-> "", salesPrice |-> Undef, revisionNumber |-> Undef]

NoLocals ==
  [itemId |-> Undef, searched |-> FALSE, items |-> <<>>, currentItem |-> NoItem,
   adjustmentResult |-> Null, result |-> Undef, error |-> Undef,
   allItems |-> <<>>, cursor |-> Undef, pages |-> 0]

NoBulk ==
  [parseResult |-> NoParseResult, results |-> NoResults, i |-> 0,
   itemId |-> Undef, currentItem |-> NoItem]

\* the state of the routes and of listAccounts
NoRequest ==
  [entry |-> "none", id |-> Undef, limit |-> Null, cursor |-> Null, body |-> Undef]

\* NextResponse.json(body, {status}): the status, success and error
Response(status, success, error) ==
  [status |-> status, success |-> success, error |-> error]

NoResponse == Response(0, FALSE, Undef)

NoRest ==
  [pc |-> "idle", request |-> NoRequest, call |-> Undef, calls |-> <<>>,
   response |-> NoResponse]

\* the state of the two concurrent requests
Requests == {1, 2}

\* the item both requests update
RaceItemId == Str("I1")

\* the data objects of the two requests
RaceData ==
  {Obj(f) : f \in [name : {Undef, Str("Gadget")}, incomeAccountId : {Undef},
                   cogsAccountId : {Undef}, assetAccountId : {Undef},
                   salesPrice : {Undef, Str("55.00")},
                   quantityOnHand : {Undef, Num(5)}]}

\* the local variables of one request at the start of case 'update'
RaceRequest(data, at) ==
  [pc |-> at, itemId |-> RaceItemId, data |-> data, currentItem |-> NoItem,
   adjustmentResult |-> Null, result |-> Undef, error |-> Undef,
   calls |-> <<>>, outcome |-> NoOutcome]

NoRace == [req |-> [r \in Requests |-> RaceRequest(Undef, "idle")], log |-> <<>>]

\* no column lookup in progress
NoLookup == [pc |-> "idle", row |-> <<>>, possibleNames |-> <<>>, value |-> Undef]

Init ==
  /\ lookup = NoLookup
  /\ env \in Environments
  /\ remoteRev = [id \in ItemIds |-> 1]
  /\ pc = "idle"
  /\ input = [message |-> Undef, file |-> Undef]
  /\ operation = NoOperation
  /\ loc = NoLocals
  /\ bulk = NoBulk
  /\ calls = <<>>
  /\ outcome = NoOutcome
  /\ rest = NoRest
  /\ race = NoRace

\* return from the handler
Finish(o) == pc' = "done" /\ outcome' = o

\* EndUserIdMissing that lets an empty CONDUCTOR_END_USER_ID pass
EndUserIdMissing_EmptyPasses(e) == e.endUserId.t = "undefined"

\* if (!endUserId), the first check of every entry point
EndUserIdMissing(e) == ~Truthy(e.endUserId)

\* new OpenAIService() without OPENAI_API_KEY
OpenAIKeyMissing == "OPENAI_API_KEY environment variable is not set"

\* new InventoryService() or new ConductorService() without CONDUCTOR_API_KEY
ConductorKeyMissing == "CONDUCTOR_API_KEY environment variable is not set"

\* the remote system's answer to an update whose revision number is stale
RevisionConflict == "revision number is out of date"

\* Throw that fetches the item again after a revision conflict
Throw_Refetch(msg) ==
  IF msg = RevisionConflict
  THEN /\ pc' = "update_get"
       /\ loc' = loc
       /\ UNCHANGED outcome
  ELSE /\ pc' = "catch"
       /\ loc' = [loc EXCEPT !.error = Str(msg)]
       /\ UNCHANGED outcome

\* an exception is thrown inside the try: control passes to the catch block
Throw(msg) ==
  /\ pc' = "catch"
  /\ loc' = [loc EXCEPT !.error = Str(msg)]
  /\ UNCHANGED outcome

\* the remote system accepts an update that carries the item's current
\* revision number, and no other
RemoteAccepts(revisionNumber, id) ==
  revisionNumber = Str(ToString(remoteRev[id]))

\* the records the remote system returns for a sequence of ids
Items(ids) == [i \in 1..Len(ids) |-> Item(ids[i], remoteRev[ids[i]])]

(***************************************************************************)
(* processChatMessage, text branch.                                        *)
(***************************************************************************)
\* filters of the name search issued for read and update
SearchFilters(name) ==
  Obj([limit |-> Num(SearchLimit), cursor |-> Undef, nameContains |-> name,
       nameStartsWith |-> Undef, nameEndsWith |-> Undef, status |-> Undef])

\* case 'create' up to the gateway call: the two checks on operation.data
CreateChecks(op) ==
  IF Truthy(op.needsAccountIds) /\ ~Truthy(Get(op.data, "incomeAccountId"))
  THEN /\ Finish(Outcome(FALSE, Str("Missing required account IDs"),
                   Reply("need-account-ids",
                         IF Truthy(Get(op.data, "name"))
                         THEN Get(op.data, "name") ELSE Str("Not specified"),
                         <<"incomeAccountId", "cogsAccountId", "assetAccountId">>,
                         <<>>),
                   Undef))
       /\ UNCHANGED loc
  ELSE IF CreateInventoryItemSchemaIssues(op.data) # <<>>
  THEN /\ Finish(Outcome(FALSE, Str("Validation failed"),
                   Reply("missing-required-fields", Undef,
                         CreateInventoryItemSchemaIssues(op.data), <<>>),
                   Undef))
       /\ UNCHANGED loc
  ELSE /\ pc' = "create"
       /\ UNCHANGED <<loc, outcome>>

\* case 'read' up to the first gateway call
ReadChecks(op) ==
  IF ~Truthy(op.itemId)
  THEN IF Truthy(op.itemName)
       THEN /\ pc' = "read_search"
            /\ UNCHANGED <<loc, outcome>>
       ELSE /\ Finish(Outcome(FALSE, Str("Missing item identifier"),
                        Reply("missing-identifier", Undef, <<>>, <<>>), Undef))
            /\ UNCHANGED loc
  ELSE /\ pc' = "read_get"
       /\ UNCHANGED <<loc, outcome>>

\* case 'update' up to the first gateway call
UpdateChecks(op) ==
  IF ~Truthy(op.itemId) /\ Truthy(op.itemName)
  THEN /\ pc' = "update_search"
       /\ loc' = [loc EXCEPT !.itemId = op.itemId]
       /\ UNCHANGED outcome
  ELSE IF ~Truthy(op.itemId)
  THEN /\ Finish(Outcome(FALSE, Str("Missing item identifier"),
                   Reply("missing-identifier", Undef, <<>>, <<>>), Undef))
       /\ UNCHANGED loc
  ELSE /\ pc' = "update_get"
       /\ loc' = [loc EXCEPT !.itemId = op.itemId]
       /\ UNCHANGED outcome

\* the sentence of the rephrase reply when the classifier gave no intent
RephraseQuestion == "Could you please rephrase your request?"

\* RephraseSentence that never shows the classifier's intent
RephraseSentence_Fixed(op) == Str(RephraseQuestion)

\* operation.intent || 'Could you please rephrase your request?'
RephraseSentence(op) ==
  IF Truthy(op.intent) THEN op.intent ELSE Str(RephraseQuestion)

\* the check for an unknown operation, createInventoryService() and the
\* switch on operation.operation, up to the first gateway call
Dispatch(op) ==
  IF op.operation = "unknown"
  THEN /\ Finish(Outcome(FALSE, Str("Could not understand the request"),
                   Reply("rephrase", RephraseSentence(op), <<>>, <<>>), Undef))
       /\ UNCHANGED loc
  ELSE IF ~Truthy(env.conductorApiKey)
  THEN Throw(ConductorKeyMissing)
  ELSE CASE op.operation = "list" ->
              /\ pc' = "list"
              /\ UNCHANGED <<loc, outcome>>
         [] op.operation = "read" -> ReadChecks(op)
         [] op.operation = "create" -> CreateChecks(op)
         [] op.operation = "update" -> UpdateChecks(op)

\* FileBranch that prefers the text of a request that has both
FileBranch_TextFirst(data) == data.file.t # "undefined" /\ ~Truthy(data.message)

\* if (file), on the request data {message, file}
FileBranch(data) == data.file.t # "undefined"

\* entry of the handler: configuration check, the choice of the branch and
\* the construction of the branch's first service
Submit ==
  /\ pc = "idle"
  /\ rest.pc = "idle"
  /\ \E message \in {Undef, Str(""), Str("text")}, file \in {Undef} \cup Files :
       /\ input' = [message |-> message, file |-> file]
       /\ IF EndUserIdMissing(env)
          THEN /\ Finish(Outcome(FALSE, Str("CONDUCTOR_END_USER_ID not configured"),
                           Reply("not-configured", Undef, <<>>, <<>>), Undef))
               /\ UNCHANGED loc
          ELSE IF FileBranch([message |-> message, file |-> file])
          THEN IF ~Truthy(env.conductorApiKey)
               THEN Throw(ConductorKeyMissing)
               ELSE pc' = "parse" /\ UNCHANGED <<loc, outcome>>
          ELSE IF ~Truthy(message)
          THEN /\ Finish(Outcome(FALSE, Str("No message or file provided"),
                           Reply("no-input", Undef, <<>>, <<>>), Undef))
               /\ UNCHANGED loc
          ELSE IF ~Truthy(env.openaiApiKey)
          THEN Throw(OpenAIKeyMissing)
          ELSE pc' = "classify" /\ UNCHANGED <<loc, outcome>>
  /\ UNCHANGED <<lookup, rest, race, env, remoteRev, operation, bulk, calls>>

\* openaiService.parseInventoryCommand(message) and the dispatch on its result
ParseInventoryCommand ==
  /\ pc = "classify"
  /\ calls' = Append(calls, Call("classify", Undef, Undef))
  /\ \/ Throw("classifier failed") /\ UNCHANGED operation
     \/ \E op \in Operations : operation' = op /\ Dispatch(op)
  /\ UNCHANGED <<lookup, rest, race, env, remoteRev, input, bulk>>

\* x ?? undefined
NullToUndef(x) == IF x.t = "null" THEN Undef ELSE x

\* the filters case 'list' hands to listInventoryItems
ForwardedFilters(op) ==
  Obj([limit |-> NullToUndef(Get(op.filters, "limit")),
       cursor |-> Undef,
       nameContains |-> NullToUndef(Get(op.filters, "nameContains")),
       nameStartsWith |-> NullToUndef(Get(op.filters, "nameStartsWith")),
       nameEndsWith |-> NullToUndef(Get(op.filters, "nameEndsWith")),
       status |-> NullToUndef(Get(op.filters, "status"))])

\* fetchAll: !operation.filters?.limit
FetchAll(op) == ~Truthy(Get(op.filters, "limit"))

\* the parameters of one conductor list call of listInventoryItems
ListCallBody(filters, fetchAll, cursor) ==
  Obj([filters.f EXCEPT
         !.cursor = IF fetchAll THEN cursor ELSE @,
         !.limit = IF fetchAll /\ ~Truthy(@) THEN Num(100) ELSE @])

\* a page as the conductor list call returns it
Page(data, nextCursor) == [data |-> data, nextCursor |-> nextCursor]

\* Accumulate that puts the new page before the pages fetched so far
Accumulate_Prepend(allItems, data) == data \o allItems

\* allItems.push(...(page.data || []))
Accumulate(allItems, data) == allItems \o data

\* ListFailed that returns the records accumulated so far
ListFailed_Partial(msg) ==
  /\ loc' = [loc EXCEPT !.result = ListResult(loc.allItems, Undef)]
  /\ Finish(Outcome(TRUE, Undef,
                    Reply("list-summary", Undef, <<>>, ReadEntries(loc.allItems)),
                    ListResult(loc.allItems, Undef)))

\* the catch block of listInventoryItems: log and rethrow
ListFailed(msg) == Throw(msg)

\* hasMore = !!cursor
HasMore(cursor) == Truthy(cursor)

\* case 'list': inventoryService.listInventoryItems, one conductor call per
\* step, and the locally formatted reply once the traversal ends
ListInventoryItems ==
  /\ pc = "list"
  /\ LET call == Call("list", Undef,
                      ListCallBody(ForwardedFilters(operation),
                                   FetchAll(operation), loc.cursor))
     IN \/ calls' = Append(calls, call) /\ ListFailed("list failed")
        \/ \E ids \in IdSeqs(PageSize),
              next \in {Undef, Null, Str(ToString(loc.pages + 1))} :
             /\ Truthy(next) => loc.pages + 1 < MaxPages
             /\ calls' = Append(calls, Returned(call, Page(Items(ids), next)))
             /\ IF FetchAll(operation) /\ HasMore(NullToUndef(next))
                THEN /\ pc' = "list"
                     /\ loc' = [loc EXCEPT
                                  !.allItems = Accumulate(@, Items(ids)),
                                  !.cursor = NullToUndef(next),
                                  !.pages = @ + 1]
                     /\ UNCHANGED outcome
                ELSE LET items == IF FetchAll(operation)
                                  THEN ListResult(
                                         Accumulate(loc.allItems, Items(ids)),
                                         Undef)
                                  ELSE ListResult(Items(ids), next)
                     IN /\ loc' = [loc EXCEPT !.allItems = items.v,
                                              !.pages = @ + 1,
                                              !.result = items]
                        /\ Finish(Outcome(TRUE, Undef,
                                    Reply("list-summary", Undef, <<>>,
                                          ReadEntries(items.v)),
                                    items))
  /\ UNCHANGED <<lookup, rest, race, env, remoteRev, input, operation, bulk>>

\* case 'read' by name: the name search and its three outcomes
ReadSearch ==
  /\ pc = "read_search"
  /\ calls' = Append(calls,
       Call("list", Undef, SearchFilters(operation.itemName)))
  /\ \/ Throw("list failed")
     \/ \E ids \in IdSeqs(MaxMatches) :
          LET items == Items(ids)
          IN IF Len(items) = 0
             THEN /\ Finish(NotFound(operation.itemName))
                  /\ loc' = [loc EXCEPT !.searched = TRUE, !.items = items]
             ELSE IF Len(items) > 1
             THEN /\ Finish(ReadMultipleMatches(operation.itemName, items))
                  /\ loc' = [loc EXCEPT !.searched = TRUE, !.items = items]
             ELSE /\ pc' = "respond"
                  /\ loc' = [loc EXCEPT !.searched = TRUE, !.items = items,
                                        !.result = ItemResult(FirstItem(items))]
                  /\ UNCHANGED outcome
  /\ UNCHANGED <<lookup, rest, race, env, remoteRev, input, operation, bulk>>

\* case 'read' by ID: inventoryService.getInventoryItem
ReadGet ==
  /\ pc = "read_get"
  /\ \/ /\ Throw("retrieve failed")
        /\ calls' = Append(calls, Call("retrieve", operation.itemId, Undef))
     \/ /\ calls' = Append(calls,
             Returned(Call("retrieve", operation.itemId, Undef),
                      Item(operation.itemId.v, remoteRev[operation.itemId.v])))
        /\ pc' = "respond"
        /\ loc' = [loc EXCEPT !.result =
                     ItemResult(Item(operation.itemId.v,
                                     remoteRev[operation.itemId.v]))]
        /\ UNCHANGED outcome
  /\ UNCHANGED <<lookup, rest, race, env, remoteRev, input, operation, bulk>>

\* case 'create': inventoryService.createInventoryItem with validation.data
CreateItem ==
  /\ pc = "create"
  /\ calls' = Append(calls, Call("create", Undef, operation.data))
  /\ \/ Throw("create failed")
     \/ /\ pc' = "respond"
        /\ loc' = [loc EXCEPT !.result =
                     ItemResult([id |-> "NEW", name |-> operation.data.f.name.v,
                                 salesPrice |-> operation.data.f.salesPrice,
                                 revisionNumber |-> Str("1")])]
        /\ UNCHANGED outcome
  /\ UNCHANGED <<lookup, rest, race, env, remoteRev, input, operation, bulk>>

\* adjustmentData of case 'update': one line {itemId, newQuantity}
AdjustmentData(accountId, itemId, currentItem, quantityOnHand) ==
  [accountId |-> accountId,
   transactionDate |-> Str("today"),
   memo |-> IF currentItem.name # "" THEN Str(currentItem.name) ELSE itemId,
   lines |-> <<[itemId |-> itemId, newQuantity |-> quantityOnHand]>>]

\* otherData: the keys of operation.data || {} except quantityOnHand; a key
\* that is left out holds undefined
OtherData(data) ==
  LET keys == IF data.t = "object" THEN DOMAIN data.f ELSE {}
  IN [k \in keys \cup Range(DataKeys) |->
        IF k = "quantityOnHand" \/ k \notin keys THEN Undef ELSE data.f[k]]

\* revisionNumber of {revisionNumber: currentItem.revisionNumber, ...otherData}:
\* a revisionNumber among the spread keys would replace the fetched one
SpreadRevision(currentItem, otherData) ==
  IF "revisionNumber" \in DOMAIN otherData
       /\ otherData["revisionNumber"].t # "undefined"
  THEN otherData["revisionNumber"]
  ELSE currentItem.revisionNumber

\* OtherKeys without the removal of quantityOnHand
OtherKeys_KeepsQuantity(data) ==
  {k \in Range(DataKeys) : Get(data, k).t # "undefined"}

\* Object.keys(otherData)
OtherKeys(data) ==
  {k \in DOMAIN OtherData(data) : OtherData(data)[k].t # "undefined"}

\* case 'update' after the adjustment: the item update, or the result when
\* only the quantity was changed
UpdateOtherFields(l) ==
  IF OtherKeys(operation.data) # {}
  THEN IF UpdateInventoryItemSchemaIssues(
            SpreadRevision(l.currentItem, OtherData(operation.data)),
            OtherData(operation.data)) # <<>>
       THEN /\ Finish(Outcome(FALSE, Str("Validation failed"),
                        Reply("invalid-update", Undef,
                              UpdateInventoryItemSchemaIssues(
                                SpreadRevision(l.currentItem,
                                               OtherData(operation.data)),
                                OtherData(operation.data)),
                              <<>>),
                        Undef))
            /\ loc' = l
       ELSE /\ pc' = "update_item"
            /\ loc' = l
            /\ UNCHANGED outcome
  ELSE /\ pc' = "respond"
       /\ loc' = [l EXCEPT !.result =
                    IF l.adjustmentResult.t # "null"
                    THEN l.adjustmentResult ELSE ItemResult(l.currentItem)]
       /\ UNCHANGED outcome

\* case 'update' by name: the name search and its three outcomes
UpdateSearch ==
  /\ pc = "update_search"
  /\ calls' = Append(calls,
       Call("list", Undef, SearchFilters(operation.itemName)))
  /\ \/ Throw("list failed")
     \/ \E ids \in IdSeqs(MaxMatches) :
          LET items == Items(ids)
          IN IF Len(items) = 0
             THEN /\ Finish(NotFound(operation.itemName))
                  /\ loc' = [loc EXCEPT !.searched = TRUE, !.items = items]
             ELSE IF Len(items) > 1
             THEN /\ Finish(UpdateMultipleMatches(operation.itemName, items))
                  /\ loc' = [loc EXCEPT !.searched = TRUE, !.items = items]
             ELSE /\ pc' = "update_get"
                  /\ loc' = [loc EXCEPT !.searched = TRUE, !.items = items,
                                        !.itemId = Str(FirstItem(items).id)]
                  /\ UNCHANGED outcome
  /\ UNCHANGED <<lookup, rest, race, env, remoteRev, input, operation, bulk>>

\* case 'update': getInventoryItem for the revision number, then the
\* quantity check, the configuration check and the adjustment validation
UpdateGet ==
  /\ pc = "update_get"
  /\ \/ /\ Throw("retrieve failed")
        /\ calls' = Append(calls, Call("retrieve", loc.itemId, Undef))
     \/ LET currentItem == Item(loc.itemId.v, remoteRev[loc.itemId.v])
            quantityOnHand == Get(operation.data, "quantityOnHand")
            l == [loc EXCEPT !.currentItem = currentItem]
        IN /\ calls' = Append(calls, Returned(Call("retrieve", loc.itemId, Undef),
                                              currentItem))
           /\ IF Present(quantityOnHand)
              THEN IF ~Truthy(env.adjustmentAccountId)
                   THEN /\ Finish(Outcome(FALSE, Str("Missing adjustment account ID"),
                                    Reply("configuration-missing",
                                          Str("QUICKBOOKS_INVENTORY_ADJUSTMENT_ACCOUNT_ID"),
                                          <<>>, <<>>),
                                    Undef))
                        /\ loc' = l
                   ELSE IF CreateInventoryAdjustmentSchemaIssues(
                             AdjustmentData(env.adjustmentAccountId, loc.itemId,
                                            currentItem, quantityOnHand)) # <<>>
                   THEN /\ Finish(Outcome(FALSE, Str("Invalid adjustment data"),
                                    Reply("invalid-adjustment", Undef, <<>>, <<>>),
                                    Undef))
                        /\ loc' = l
                   ELSE /\ pc' = "update_adjust"
                        /\ loc' = l
                        /\ UNCHANGED outcome
              ELSE UpdateOtherFields(l)
  /\ UNCHANGED <<lookup, rest, race, env, remoteRev, input, operation, bulk>>

\* case 'update': inventoryService.createInventoryAdjustment.  Whether the
\* remote system gives the item a new revision for it is the remote's choice.
UpdateAdjust ==
  /\ pc = "update_adjust"
  /\ LET adjustment == AdjustmentData(env.adjustmentAccountId, loc.itemId,
                                      loc.currentItem,
                                      Get(operation.data, "quantityOnHand"))
     IN /\ calls' = Append(calls, Call("adjustment", loc.itemId, Obj(adjustment)))
        /\ \/ Throw("adjustment failed") /\ UNCHANGED remoteRev
           \/ /\ \E bump \in {0, 1} :
                   remoteRev' = [remoteRev EXCEPT ![loc.itemId.v] = @ + bump]
              /\ UpdateOtherFields(
                   [loc EXCEPT !.adjustmentResult = AdjustmentResult(adjustment)])
  /\ UNCHANGED <<lookup, rest, race, env, input, operation, bulk>>

\* case 'update': inventoryService.updateInventoryItem.  The remote system
\* rejects a revision number that is not the item's current one.
UpdateItem ==
  /\ pc = "update_item"
  /\ LET item == UpdateInventoryItemSchemaData(
                   SpreadRevision(loc.currentItem, OtherData(operation.data)),
                   OtherData(operation.data))
         id == loc.itemId.v
     IN /\ calls' = Append(calls, Call("update", loc.itemId, Obj(item)))
        /\ \/ Throw("update failed") /\ UNCHANGED remoteRev
           \/ /\ ~RemoteAccepts(item.revisionNumber, id)
              /\ Throw(RevisionConflict)
              /\ UNCHANGED remoteRev
           \/ /\ RemoteAccepts(item.revisionNumber, id)
              /\ remoteRev' = [remoteRev EXCEPT ![id] = @ + 1]
              /\ pc' = "respond"
              /\ loc' = [loc EXCEPT !.result = ItemResult(Item(id, remoteRev[id] + 1))]
              /\ UNCHANGED outcome
  /\ UNCHANGED <<lookup, rest, race, env, input, operation, bulk>>

\* openaiService.generateResponse for a successful operation, with its
\* fallback text when the phrasing call fails
GenerateResponse ==
  /\ pc = "respond"
  /\ calls' = Append(calls, Call("phrase", Undef, Undef))
  /\ \E kind \in {"phrased", "fallback-success"} :
       Finish(Outcome(TRUE, Undef,
                Reply(kind, Str(operation.operation), <<>>, <<>>), loc.result))
  /\ UNCHANGED <<lookup, rest, race, env, remoteRev, input, operation, loc, bulk>>

\* the catch block: createOpenAIService(), then the error message is phrased
\* and returned as a failure.  An exception of the constructor is thrown from
\* inside the catch block and leaves the handler.
CatchError ==
  /\ pc = "catch"
  /\ IF ~Truthy(env.openaiApiKey)
     THEN /\ pc' = "thrown"
          /\ UNCHANGED <<calls, outcome>>
     ELSE /\ calls' = Append(calls, Call("phrase", Undef, Undef))
          /\ \E kind \in {"phrased", "fallback-failure"} :
               Finish(Outcome(FALSE, loc.error,
                              Reply(kind, loc.error, <<>>, <<>>), Undef))
  /\ UNCHANGED <<lookup, rest, race, env, remoteRev, input, operation, loc, bulk>>

(***************************************************************************)
(* processChatMessage, file branch.                                        *)
(***************************************************************************)
\* createData of a create row
RowCreateData(row) ==
  Obj([name |-> row.name, incomeAccountId |-> row.incomeAccountId,
       cogsAccountId |-> row.cogsAccountId,
       assetAccountId |-> row.assetAccountId, salesPrice |-> row.salesPrice,
       quantityOnHand |-> row.quantityOnHand])

\* updateData of an update row, without the revision number
RowUpdateData(row) ==
  [name |-> row.name, incomeAccountId |-> Undef, cogsAccountId |-> Undef,
   assetAccountId |-> Undef, salesPrice |-> row.salesPrice,
   quantityOnHand |-> row.quantityOnHand]

\* the row the loop is at
CurrentRow(bk) == bk.parseResult.rows[bk.i]

\* RowFailed that counts the row without recording its error
RowFailed_Unlisted(bk, msg) ==
  [bk EXCEPT !.results.failed = @ + 1, !.i = @ + 1]

\* the catch of the row loop: the row is counted as failed, the loop goes on
RowFailed(bk, msg) ==
  [bk EXCEPT !.results.failed = @ + 1,
             !.results.errors =
                Append(@, [rowNumber |-> CurrentRow(bk).rowNumber,
                           error |-> msg]),
             !.i = @ + 1]

\* the end of a create row
RowCreated(bk) ==
  [bk EXCEPT !.results.successful = @ + 1,
             !.results.created = @ + 1,
             !.results.successfulItems =
                Append(@, [rowNumber |-> CurrentRow(bk).rowNumber,
                           action |-> "CREATED", name |-> CurrentRow(bk).name]),
             !.i = @ + 1]

\* the end of an update row
RowUpdated(bk) ==
  [bk EXCEPT !.results.successful = @ + 1,
             !.results.updated = @ + 1,
             !.results.successfulItems =
                Append(@, [rowNumber |-> CurrentRow(bk).rowNumber,
                           action |-> "UPDATED",
                           name |-> IF Truthy(CurrentRow(bk).name)
                                    THEN CurrentRow(bk).name
                                    ELSE Str(bk.currentItem.name)]),
             !.i = @ + 1]

RECURSIVE RunRows(_)
\* the row loop from row bk.i up to its next gateway call, or to its end
RunRows(bk) ==
  IF bk.i > Len(bk.parseResult.rows) THEN [pc |-> "done", bulk |-> bk]
  ELSE IF CurrentRow(bk).action = "create"
  THEN IF CreateInventoryItemSchemaIssues(RowCreateData(CurrentRow(bk))) # <<>>
       THEN RunRows(RowFailed(bk, "Validation failed"))
       ELSE [pc |-> "row_create", bulk |-> bk]
  ELSE IF ~Truthy(CurrentRow(bk).itemId) /\ Truthy(CurrentRow(bk).name)
  THEN [pc |-> "row_search", bulk |-> [bk EXCEPT !.itemId = CurrentRow(bk).itemId]]
  ELSE IF ~Truthy(CurrentRow(bk).itemId)
  THEN RunRows(RowFailed(bk, "ItemId or Name is required for UPDATE"))
  ELSE [pc |-> "row_get", bulk |-> [bk EXCEPT !.itemId = CurrentRow(bk).itemId]]

\* what the file branch returns after the loop
BulkOutcome(results) ==
  Outcome(results.failed = 0, Undef,
          Reply("bulk-summary", Undef, <<>>, results.errors),
          [t |-> "results", v |-> results])

\* go on with the loop from bk
Continue(bk) ==
  /\ bulk' = RunRows(bk).bulk
  /\ IF RunRows(bk).pc = "done"
     THEN Finish(BulkOutcome(RunRows(bk).bulk.results))
     ELSE pc' = RunRows(bk).pc /\ UNCHANGED outcome

\* RowThrow that ends the loop at the failed row
RowThrow_Abort(msg) ==
  /\ bulk' = RowFailed(bulk, msg)
  /\ Finish(BulkOutcome(RowFailed(bulk, msg).results))

\* a remote call of the file branch threw: the row's catch records it
RowThrow(msg) == Continue(RowFailed(bulk, msg))

\* excelService.parseInventoryExcel and the check of its result
ParseFile ==
  /\ pc = "parse"
  /\ \/ /\ pc' = "catch"
        /\ loc' = [loc EXCEPT !.error = Str("Excel file is empty or has no sheets")]
        /\ UNCHANGED <<bulk, outcome>>
     \/ LET parseResult == ParseInventoryExcel(input.file.rows)
        IN IF ~parseResult.success \/ Len(parseResult.rows) = 0
           THEN /\ Finish(Outcome(FALSE, Str("Failed to parse Excel file"),
                            Reply("parse-failed", Undef, <<>>, parseResult.errors),
                            [t |-> "parseResult", v |-> parseResult]))
                /\ bulk' = [bulk EXCEPT !.parseResult = parseResult]
                /\ UNCHANGED loc
           ELSE /\ Continue([bulk EXCEPT
                               !.parseResult = parseResult,
                               !.results.total = Len(parseResult.rows),
                               !.i = 1])
                /\ UNCHANGED loc
  /\ UNCHANGED <<lookup, rest, race, env, remoteRev, input, operation, calls>>

\* create row: inventoryService.createInventoryItem
RowCreate ==
  /\ pc = "row_create"
  /\ calls' = Append(calls, Call("create", Undef, RowCreateData(CurrentRow(bulk))))
  /\ \/ RowThrow("create failed")
     \/ Continue(RowCreated(bulk))
  /\ UNCHANGED <<lookup, rest, race, env, remoteRev, input, operation, loc>>

\* update row identified by name: the name search
RowSearch ==
  /\ pc = "row_search"
  /\ LET call == Call("list", Undef, SearchFilters(CurrentRow(bulk).name))
     IN \/ calls' = Append(calls, call) /\ RowThrow("list failed")
        \/ \E ids \in IdSeqs(MaxMatches) :
             /\ calls' = Append(calls, Returned(call, Page(Items(ids), Undef)))
             /\ IF Len(ids) = 0 THEN RowThrow("Item not found")
                ELSE IF Len(ids) > 1 THEN RowThrow("Multiple items found")
                ELSE /\ pc' = "row_get"
                     /\ bulk' = [bulk EXCEPT
                                   !.itemId = Str(FirstItem(Items(ids)).id)]
                     /\ UNCHANGED outcome
  /\ UNCHANGED <<lookup, rest, race, env, remoteRev, input, operation, loc>>

\* update row: getInventoryItem for the revision number, then the
\* validation of updateData
RowGet ==
  /\ pc = "row_get"
  /\ \/ /\ RowThrow("retrieve failed")
        /\ calls' = Append(calls, Call("retrieve", bulk.itemId, Undef))
     \/ LET currentItem == Item(bulk.itemId.v, remoteRev[bulk.itemId.v])
        IN /\ calls' = Append(calls, Returned(Call("retrieve", bulk.itemId, Undef),
                                              currentItem))
           /\ IF UpdateInventoryItemSchemaIssues(currentItem.revisionNumber,
                   RowUpdateData(CurrentRow(bulk))) # <<>>
              THEN RowThrow("Validation failed")
              ELSE /\ pc' = "row_update"
                   /\ bulk' = [bulk EXCEPT !.currentItem = currentItem]
                   /\ UNCHANGED outcome
  /\ UNCHANGED <<lookup, rest, race, env, remoteRev, input, operation, loc>>

\* update row: inventoryService.updateInventoryItem with validation.data
RowUpdate ==
  /\ pc = "row_update"
  /\ LET item == UpdateInventoryItemSchemaData(bulk.currentItem.revisionNumber,
                                               RowUpdateData(CurrentRow(bulk)))
         id == bulk.itemId.v
     IN /\ calls' = Append(calls, Call("update", bulk.itemId, Obj(item)))
        /\ \/ RowThrow("update failed") /\ UNCHANGED remoteRev
           \/ /\ ~RemoteAccepts(item.revisionNumber, id)
              /\ RowThrow(RevisionConflict)
              /\ UNCHANGED remoteRev
           \/ /\ RemoteAccepts(item.revisionNumber, id)
              /\ remoteRev' = [remoteRev EXCEPT ![id] = @ + 1]
              /\ Continue(RowUpdated(bulk))
  /\ UNCHANGED <<lookup, rest, race, env, input, operation, loc>>

(***************************************************************************)
(* The customers routes, the health check and the listAccounts action.     *)
(* The bodies of POST and PATCH reach the handler after the route          *)
(* wrapper's schema validation, so the handlers see valid bodies only.     *)
(***************************************************************************)
\* ListCustomersSchema.limit: .min(1)
MinLimit == 1

\* ListCustomersSchema.limit: .max(100)
MaxLimit == 100

\* ListCustomersSchema.limit: .default(50)
DefaultLimit == 50

\* listAccounts: limit of the accounts query
AccountsLimit == 150

\* Number("abc")
NaN == [t |-> "nan"]

\* limit ? Number(limit) : undefined, on url.searchParams.get('limit')
LimitNumber(limit) ==
  CASE ~Truthy(limit) -> Undef
    [] limit.v = "0" -> Num(0)
    [] limit.v = "50" -> Num(50)
    [] limit.v = "101" -> Num(101)
    [] OTHER -> NaN

\* ListCustomersSchema.parse: the paths of the issues of the ZodError it throws
ListCustomersSchemaIssues(limit, cursor) ==
  (IF \/ limit.t = "undefined"
      \/ limit.t = "number" /\ limit.v >= MinLimit /\ limit.v <= MaxLimit
   THEN <<>> ELSE <<"limit">>)
    \o (IF OptionalStringOk(cursor) THEN <<>> ELSE <<"cursor">>)

\* ListCustomersSchema.parse: the parsed parameters
ListCustomersSchemaData(limit, cursor) ==
  [limit |-> IF limit.t = "undefined" THEN Num(DefaultLimit) ELSE limit,
   cursor |-> cursor]

\* GetCustomerSchema.parse: the paths of the issues of the ZodError it throws
GetCustomerSchemaIssues(customerId) ==
  IF RequiredStringOk(customerId) THEN <<>> ELSE <<"customerId">>

\* the requests on the routes and on listAccounts
RestRequests ==
  {[entry |-> e, id |-> Undef, limit |-> Null, cursor |-> Null, body |-> Undef] :
     e \in {"listAccounts", "healthCheck"}}
    \cup {[entry |-> "listCustomers", id |-> Undef, limit |-> l, cursor |-> c,
           body |-> Undef] :
            l \in {Null, Str(""), Str("0"), Str("50"), Str("101"), Str("abc")},
            c \in {Null, Str("c1")}}
    \cup {[entry |-> "getCustomer", id |-> i, limit |-> Null, cursor |-> Null,
           body |-> Undef] : i \in {Str(""), Str("C1")}}
    \cup {[entry |-> "createCustomer", id |-> Undef, limit |-> Null,
           cursor |-> Null, body |-> Obj([name |-> Str("Acme")])]}
    \cup {[entry |-> "updateCustomer", id |-> i, limit |-> Null, cursor |-> Null,
           body |-> Obj([revisionNumber |-> Str("1"), name |-> n])] :
            i \in {Str(""), Str("C1")}, n \in {Undef, Str("Acme")}}

\* the status a route's catch block answers with for an Error
CatchStatus(entry) == IF entry = "healthCheck" THEN 503 ELSE 500

\* the status of a route's successful answer
SuccessStatus(entry) == IF entry = "createCustomer" THEN 201 ELSE 200

\* the error thrown on the way to the remote call, Undef when there is none:
\* the parse of the parameters, then the construction of the service
RestLocalError(e, rq) ==
  CASE /\ rq.entry = "listCustomers"
       /\ ListCustomersSchemaIssues(LimitNumber(rq.limit),
                                    NullToUndef(rq.cursor)) # <<>> ->
         Str("ZodError")
    [] rq.entry = "getCustomer" /\ GetCustomerSchemaIssues(rq.id) # <<>> ->
         Str("ZodError")
    [] OTHER ->
         IF Truthy(e.conductorApiKey) THEN Undef ELSE Str(ConductorKeyMissing)

\* the remote call of an entry point
RestCall(rq) ==
  CASE rq.entry = "listAccounts" ->
         Call("listAccounts", Undef, Obj([limit |-> Num(AccountsLimit)]))
    [] rq.entry = "healthCheck" -> Call("healthCheck", Undef, Undef)
    [] rq.entry = "listCustomers" ->
         Call("listCustomers", Undef,
              Obj(ListCustomersSchemaData(LimitNumber(rq.limit),
                                          NullToUndef(rq.cursor))))
    [] rq.entry = "getCustomer" -> Call("getCustomer", rq.id, Undef)
    [] rq.entry = "createCustomer" -> Call("createCustomer", Undef, rq.body)
    [] OTHER -> Call("updateCustomer", rq.id, rq.body)

\* an entry point from the arrival of the request to its first remote call
RestReceive ==
  /\ pc = "idle"
  /\ rest.pc = "idle"
  /\ \E rq \in RestRequests :
       rest' =
         IF rq.entry = "listAccounts"
         THEN IF EndUserIdMissing(env)
              THEN [rest EXCEPT !.request = rq, !.pc = "thrown",
                                !.response = Response(0, FALSE,
                                  Str("CONDUCTOR_END_USER_ID not configured"))]
              ELSE IF RestLocalError(env, rq) # Undef
              THEN [rest EXCEPT !.request = rq, !.pc = "thrown",
                                !.response = Response(0, FALSE,
                                                      RestLocalError(env, rq))]
              ELSE [rest EXCEPT !.request = rq, !.pc = "call",
                                !.call = RestCall(rq)]
         ELSE IF EndUserIdMissing(env)
         THEN [rest EXCEPT !.request = rq, !.pc = "done",
                           !.response = Response(500, FALSE,
                             Str("QuickBooks configuration is missing"))]
         ELSE IF rq.entry = "updateCustomer" /\ ~Truthy(rq.id)
         THEN [rest EXCEPT !.request = rq, !.pc = "done",
                           !.response = Response(400, FALSE,
                                                 Str("Customer ID is required"))]
         ELSE IF RestLocalError(env, rq) # Undef
         THEN [rest EXCEPT !.request = rq, !.pc = "done",
                           !.response = Response(CatchStatus(rq.entry), FALSE,
                                                 RestLocalError(env, rq))]
         ELSE [rest EXCEPT !.request = rq, !.pc = "call", !.call = RestCall(rq)]
  /\ UNCHANGED <<lookup, race, env, remoteRev, pc, input, operation, loc, bulk, calls,
                 outcome>>

\* the remote call of an entry point and the answer built from its result
RestRemote ==
  /\ rest.pc = "call"
  /\ \E ok \in BOOLEAN :
       rest' =
         [rest EXCEPT
            !.calls = Append(@, rest.call),
            !.pc = IF ~ok /\ rest.request.entry = "listAccounts"
                   THEN "thrown" ELSE "done",
            !.response =
               IF ok THEN Response(SuccessStatus(rest.request.entry), TRUE, Undef)
               ELSE IF rest.request.entry = "listAccounts"
               THEN Response(0, FALSE, Str("remote call failed"))
               ELSE Response(CatchStatus(rest.request.entry), FALSE,
                             Str("remote call failed"))]
  /\ UNCHANGED <<lookup, race, env, remoteRev, pc, input, operation, loc, bulk, calls,
                 outcome>>

Next ==
  \/ Submit
  \/ ParseInventoryCommand
  \/ ListInventoryItems
  \/ ReadSearch
  \/ ReadGet
  \/ CreateItem
  \/ UpdateSearch
  \/ UpdateGet
  \/ UpdateAdjust
  \/ UpdateItem
  \/ GenerateResponse
  \/ CatchError
  \/ ParseFile
  \/ RowCreate
  \/ RowSearch
  \/ RowGet
  \/ RowUpdate
  \/ RestReceive
  \/ RestRemote

Spec == Init /\ [][Next]_vars

(***************************************************************************)
(* Two processChatMessage requests at the same time.  Both were classified *)
(* as an update of the same item by ID; each runs case 'update' on its own *)
(* local variables, and the remote system is all they share.               *)
(***************************************************************************)
\* an entry of the order in which the remote system served the calls
Served(r, op, ok) == [r |-> r, op |-> op, ok |-> ok]

\* return from the handler
RaceFinish(q, o) == [q EXCEPT !.pc = "done", !.outcome = o]

\* OnRemoteFailure that fetches the item again after a revision conflict
OnRemoteFailure_Refetch(q, msg) ==
  IF msg = RevisionConflict
  THEN [q EXCEPT !.pc = "update_get"]
  ELSE [q EXCEPT !.pc = "catch", !.error = Str(msg)]

\* a remote call threw: the exception reaches the handler's catch block
OnRemoteFailure(q, msg) == [q EXCEPT !.pc = "catch", !.error = Str(msg)]

\* case 'update' after the adjustment, on the local variables q
RaceOtherFields(q) ==
  IF OtherKeys(q.data) # {}
  THEN IF UpdateInventoryItemSchemaIssues(
            SpreadRevision(q.currentItem, OtherData(q.data)),
            OtherData(q.data)) # <<>>
       THEN RaceFinish(q, Outcome(FALSE, Str("Validation failed"),
                                  Reply("invalid-update", Undef,
                                        UpdateInventoryItemSchemaIssues(
                                          SpreadRevision(q.currentItem,
                                                         OtherData(q.data)),
                                          OtherData(q.data)),
                                        <<>>),
                                  Undef))
       ELSE [q EXCEPT !.pc = "update_item"]
  ELSE [q EXCEPT !.pc = "respond",
                 !.result = IF q.adjustmentResult.t # "null"
                            THEN q.adjustmentResult
                            ELSE ItemResult(q.currentItem)]

\* getInventoryItem and the checks that follow it, for request r
RaceGet(r) ==
  /\ race.req[r].pc = "update_get"
  /\ LET q == [race.req[r] EXCEPT
                 !.calls = Append(@, Call("retrieve", race.req[r].itemId, Undef))]
         currentItem == Item(q.itemId.v, remoteRev[q.itemId.v])
         quantityOnHand == Get(q.data, "quantityOnHand")
         got == [race.req[r] EXCEPT
                   !.currentItem = currentItem,
                   !.calls = Append(@, Returned(Call("retrieve", q.itemId, Undef),
                                                currentItem))]
     IN \/ race' = [race EXCEPT
                      !.req[r] = OnRemoteFailure(q, "retrieve failed"),
                      !.log = Append(@, Served(r, "retrieve", FALSE))]
        \/ race' = [race EXCEPT
             !.log = Append(@, Served(r, "retrieve", TRUE)),
             !.req[r] =
                IF Present(quantityOnHand)
                THEN IF ~Truthy(env.adjustmentAccountId)
                     THEN RaceFinish(got,
                            Outcome(FALSE, Str("Missing adjustment account ID"),
                                    Reply("configuration-missing",
                                          Str("QUICKBOOKS_INVENTORY_ADJUSTMENT_ACCOUNT_ID"),
                                          <<>>, <<>>),
                                    Undef))
                     ELSE IF CreateInventoryAdjustmentSchemaIssues(
                               AdjustmentData(env.adjustmentAccountId, q.itemId,
                                              currentItem, quantityOnHand)) # <<>>
                     THEN RaceFinish(got,
                            Outcome(FALSE, Str("Invalid adjustment data"),
                                    Reply("invalid-adjustment", Undef, <<>>, <<>>),
                                    Undef))
                     ELSE [got EXCEPT !.pc = "update_adjust"]
                ELSE RaceOtherFields(got)]
  /\ UNCHANGED <<lookup, rest, env, remoteRev, pc, input, operation, loc, bulk, calls,
                 outcome>>

\* createInventoryAdjustment for request r
RaceAdjust(r) ==
  /\ race.req[r].pc = "update_adjust"
  /\ LET adjustment == AdjustmentData(env.adjustmentAccountId, race.req[r].itemId,
                                      race.req[r].currentItem,
                                      Get(race.req[r].data, "quantityOnHand"))
         q == [race.req[r] EXCEPT
                 !.calls = Append(@, Call("adjustment", race.req[r].itemId,
                                          Obj(adjustment)))]
     IN \/ /\ race' = [race EXCEPT
                         !.req[r] = OnRemoteFailure(q, "adjustment failed"),
                         !.log = Append(@, Served(r, "adjustment", FALSE))]
           /\ UNCHANGED remoteRev
        \/ /\ \E bump \in {0, 1} :
                remoteRev' = [remoteRev EXCEPT ![q.itemId.v] = @ + bump]
           /\ race' = [race EXCEPT
                         !.req[r] = RaceOtherFields(
                            [q EXCEPT !.adjustmentResult =
                                         AdjustmentResult(adjustment)]),
                         !.log = Append(@, Served(r, "adjustment", TRUE))]
  /\ UNCHANGED <<lookup, rest, env, pc, input, operation, loc, bulk, calls, outcome>>

\* updateInventoryItem for request r
RaceUpdate(r) ==
  /\ race.req[r].pc = "update_item"
  /\ LET item == UpdateInventoryItemSchemaData(
                   SpreadRevision(race.req[r].currentItem,
                                  OtherData(race.req[r].data)),
                   OtherData(race.req[r].data))
         id == race.req[r].itemId.v
         q == [race.req[r] EXCEPT
                 !.calls = Append(@, Call("update", race.req[r].itemId, Obj(item)))]
     IN \/ /\ race' = [race EXCEPT
                         !.req[r] = OnRemoteFailure(q, "update failed"),
                         !.log = Append(@, Served(r, "update", FALSE))]
           /\ UNCHANGED remoteRev
        \/ /\ ~RemoteAccepts(item.revisionNumber, id)
           /\ race' = [race EXCEPT
                         !.req[r] = OnRemoteFailure(q, RevisionConflict),
                         !.log = Append(@, Served(r, "update", FALSE))]
           /\ UNCHANGED remoteRev
        \/ /\ RemoteAccepts(item.revisionNumber, id)
           /\ remoteRev' = [remoteRev EXCEPT ![id] = @ + 1]
           /\ race' = [race EXCEPT
                         !.req[r] = [q EXCEPT
                            !.pc = "respond",
                            !.result = ItemResult(Item(id, remoteRev[id] + 1))],
                         !.log = Append(@, Served(r, "update", TRUE))]
  /\ UNCHANGED <<lookup, rest, env, pc, input, operation, loc, bulk, calls, outcome>>

\* generateResponse and the successful return of request r
RaceRespond(r) ==
  /\ race.req[r].pc = "respond"
  /\ \E kind \in {"phrased", "fallback-success"} :
       race' = [race EXCEPT !.req[r] =
                  RaceFinish([race.req[r] EXCEPT
                                !.calls = Append(@, Call("phrase", Undef, Undef))],
                             Outcome(TRUE, Undef,
                                     Reply(kind, Str("update"), <<>>, <<>>),
                                     race.req[r].result))]
  /\ UNCHANGED <<lookup, rest, env, remoteRev, pc, input, operation, loc, bulk, calls,
                 outcome>>

\* the catch block of request r
RaceCatch(r) ==
  /\ race.req[r].pc = "catch"
  /\ IF ~Truthy(env.openaiApiKey)
     THEN race' = [race EXCEPT !.req[r].pc = "thrown"]
     ELSE \E kind \in {"phrased", "fallback-failure"} :
            race' = [race EXCEPT !.req[r] =
                       RaceFinish([race.req[r] EXCEPT
                                     !.calls = Append(@, Call("phrase", Undef, Undef))],
                                  Outcome(FALSE, race.req[r].error,
                                          Reply(kind, race.req[r].error, <<>>, <<>>),
                                          Undef))]
  /\ UNCHANGED <<lookup, rest, env, remoteRev, pc, input, operation, loc, bulk, calls,
                 outcome>>

\* both requests have passed the entry checks, the classifier and the
\* construction of the services, and stand before getInventoryItem
RaceInit ==
  /\ lookup = NoLookup
  /\ env \in {e \in Environments :
                /\ Truthy(e.endUserId)
                /\ Truthy(e.openaiApiKey)
                /\ Truthy(e.conductorApiKey)}
  /\ remoteRev = [id \in ItemIds |-> 1]
  /\ pc = "idle"
  /\ input = [message |-> Undef, file |-> Undef]
  /\ operation = NoOperation
  /\ loc = NoLocals
  /\ bulk = NoBulk
  /\ calls = <<>>
  /\ outcome = NoOutcome
  /\ rest = NoRest
  /\ \E d1, d2 \in RaceData :
       race = [req |-> [r \in Requests |->
                          RaceRequest(IF r = 1 THEN d1 ELSE d2, "update_get")],
               log |-> <<>>]

RaceNext ==
  \E r \in Requests :
    \/ RaceGet(r)
    \/ RaceAdjust(r)
    \/ RaceUpdate(r)
    \/ RaceRespond(r)
    \/ RaceCatch(r)

RaceSpec == RaceInit /\ [][RaceNext]_vars

(***************************************************************************)
(* The column lookup of the bulk parser on one sheet record.               *)
(***************************************************************************)
\* parseRow calls getColumnValue on a record for the quantityOnHand aliases
ColumnCall ==
  /\ lookup.pc = "idle"
  /\ \E row \in SheetRows :
       lookup' = [pc |-> "called", row |-> row,
                  possibleNames |-> QuantityAliases, value |-> Undef]
  /\ UNCHANGED <<rest, race, env, remoteRev, pc, input, operation, loc, bulk,
                 calls, outcome>>

\* getColumnValue returns
ColumnReturn ==
  /\ lookup.pc = "called"
  /\ lookup' = [lookup EXCEPT
                  !.pc = "returned",
                  !.value = GetColumnValue(lookup.row, lookup.possibleNames)]
  /\ UNCHANGED <<rest, race, env, remoteRev, pc, input, operation, loc, bulk,
                 calls, outcome>>

ColumnInit ==
  /\ lookup = NoLookup
  /\ env \in {e \in Environments :
                /\ Truthy(e.endUserId)
                /\ Truthy(e.adjustmentAccountId)
                /\ Truthy(e.openaiApiKey)
                /\ Truthy(e.conductorApiKey)}
  /\ remoteRev = [id \in ItemIds |-> 1]
  /\ pc = "idle"
  /\ input = [message |-> Undef, file |-> Undef]
  /\ operation = NoOperation
  /\ loc = NoLocals
  /\ bulk = NoBulk
  /\ calls = <<>>
  /\ outcome = NoOutcome
  /\ rest = NoRest
  /\ race = NoRace

ColumnNext == ColumnCall \/ ColumnReturn

ColumnSpec == ColumnInit /\ [][ColumnNext]_vars


(***************************************************************************)
(* Properties.                                                             *)
(***************************************************************************)
RequiredCreateFields ==
  {"name", "incomeAccountId", "cogsAccountId", "assetAccountId"}

\* the required create fields that are absent, null or empty
MissingCreateFields(data) ==
  {k \in RequiredCreateFields : ~Truthy(Get(data, k))}

\* the calls of the request that act on one item
ItemCalls == SelectSeq(calls, LAMBDA c : c.op \in {"retrieve", "adjustment", "update"})

\* C1: a create request whose data lacks name, incomeAccountId, cogsAccountId
\* or assetAccountId (absent, null or empty) ends with a failure outcome (at
\* once, or through the catch block when the gateway cannot be constructed),
\* and no gateway call, in particular no create call, is issued.
C1_NoCreateWhenRequiredMissing ==
  (operation.operation = "create" /\ MissingCreateFields(operation.data) # {})
    => /\ pc \in {"catch", "done"}
       /\ pc = "catch" => loc.error = Str(ConductorKeyMissing)
       /\ pc = "done" =>
            /\ ~outcome.success
            /\ outcome.error \in {Str("Missing required account IDs"),
                                  Str("Validation failed"),
                                  Str(ConductorKeyMissing)}
       /\ GatewayCalls(calls) = <<>>

C1_Witness ==
  /\ pc = "done"
  /\ operation.operation = "create"
  /\ MissingCreateFields(operation.data) = {"cogsAccountId"}
  /\ outcome.error = Str("Validation failed")

AccountFields == {"incomeAccountId", "cogsAccountId", "assetAccountId"}

\* C2: the missing-field reply of a create request (one that carries a data
\* object) names exactly the required fields that are missing: each missing
\* account reference is listed and none that was supplied is listed, and a
\* missing name is pointed out.
C2_ReplyNamesExactlyMissing ==
  (/\ pc = "done"
   /\ operation.operation = "create"
   /\ operation.data.t = "object"
   /\ loc.error = Undef
   /\ MissingCreateFields(operation.data) # {})
    => /\ Range(outcome.reply.fields) \cap AccountFields
            = MissingCreateFields(operation.data) \cap AccountFields
       /\ "name" \in MissingCreateFields(operation.data)
            => \/ "name" \in Range(outcome.reply.fields)
               \/ outcome.reply.term = Str("Not specified")

\* the data of an update request holds a quantity and no other key
OnlyQuantity(data) ==
  /\ data.t = "object"
  /\ Present(data.f.quantityOnHand)
  /\ \A k \in Range(DataKeys) \ {"quantityOnHand"} : data.f[k].t = "undefined"

\* C3: an update whose data holds only a quantity-on-hand change, with the
\* adjustment account configured, once its item is resolved and retrieved,
\* issues exactly one createInventoryAdjustment call and no updateInventoryItem
\* call; the adjustment result is the result of the request, and the request
\* fails only when the adjustment call itself fails.
C3_QuantityOnlyUpdate ==
  (/\ pc = "done"
   /\ operation.operation = "update"
   /\ OnlyQuantity(operation.data)
   /\ Truthy(env.adjustmentAccountId)
   /\ loc.currentItem # NoItem)
    => /\ Len(CallsOf(calls, "adjustment")) = 1
       /\ CallsOf(calls, "update") = <<>>
       /\ outcome.success =>
            /\ outcome.data.t = "adjustment"
            /\ outcome.data = loc.adjustmentResult
            /\ outcome.data.v.lines =
                 <<[itemId |-> loc.itemId,
                    newQuantity |-> operation.data.f.quantityOnHand]>>
       /\ ~outcome.success => outcome.error = Str("adjustment failed")

C3_Witness ==
  /\ pc = "done"
  /\ operation.operation = "update"
  /\ OnlyQuantity(operation.data)
  /\ operation.data.f.quantityOnHand = Num(0)
  /\ Truthy(env.adjustmentAccountId)
  /\ outcome.success
  /\ outcome.data.t = "adjustment"
  /\ Len(CallsOf(calls, "adjustment")) = 1

\* C4: an update whose data holds only a quantity change and that names its
\* item, with no adjustment account configured, makes no remote call at all
\* and ends with a configuration-missing outcome naming the setting.
C4_NoRemoteCallWithoutAdjustmentAccount ==
  (/\ pc = "done"
   /\ operation.operation = "update"
   /\ OnlyQuantity(operation.data)
   /\ Truthy(operation.itemId)
   /\ loc.error = Undef
   /\ ~Truthy(env.adjustmentAccountId))
    => /\ GatewayCalls(calls) = <<>>
       /\ outcome.reply.kind = "configuration-missing"
       /\ outcome.reply.term = Str("QUICKBOOKS_INVENTORY_ADJUSTMENT_ACCOUNT_ID")

\* the data record at position n of the uploaded sheet is invalid: the parser
\* rejects it, or the schema of its action rejects the parsed row
InvalidRecord(jsonData, n) ==
  LET r == ParseRow(jsonData[n], n + 1)
  IN \/ ~r.ok
     \/ /\ r.row.action = "create"
        /\ CreateInventoryItemSchemaIssues(RowCreateData(r.row)) # <<>>
     \/ /\ r.row.action = "update"
        /\ SelectSeq(UpdateKeys,
                     LAMBDA k : ~UpdateFieldOk(k, RowUpdateData(r.row)[k])) # <<>>

\* the errors of the row loop that come from the remote system
RemoteFailures ==
  {"create failed", "list failed", "retrieve failed", "update failed",
   RevisionConflict, "Item not found", "Multiple items found"}

\* C5: a bulk upload of n >= 2 data rows of which exactly one is invalid, with
\* every remote call succeeding, returns total = n, successful = n - 1,
\* failed = 1, and the invalid row's number exactly once in the error list.
C5_OneInvalidRowOfN ==
  LET jsonData == input.file.rows
      n == Len(jsonData)
      invalid == {k \in 1..n : InvalidRecord(jsonData, k)}
  IN (/\ pc = "done"
      /\ Truthy(env.endUserId)
      /\ input.file.t = "file"
      /\ loc.error.t = "undefined"
      /\ n >= 2
      /\ Cardinality(invalid) = 1
      /\ \A j \in 1..Len(bulk.results.errors) :
           bulk.results.errors[j].error \notin RemoteFailures)
       => /\ outcome.data.t = "results"
          /\ outcome.data.v.total = n
          /\ outcome.data.v.successful = n - 1
          /\ outcome.data.v.failed = 1
          /\ \A k \in invalid :
               Cardinality({j \in 1..Len(outcome.data.v.errors) :
                              outcome.data.v.errors[j].rowNumber = k + 1}) = 1
          /\ Len(GatewayCalls(calls)) >= n - 1

\* C6: in a bulk upload every UPDATE row that carries a QuantityOnHand value
\* and is reported as updated has caused an inventory adjustment.
C6_BulkQuantityCreatesAdjustment ==
  (pc = "done" /\ outcome.data.t = "results")
    => \A i \in 1..Len(bulk.parseResult.rows) :
         LET row == bulk.parseResult.rows[i]
         IN (/\ row.action = "update"
             /\ Present(row.quantityOnHand)
             /\ \E j \in 1..Len(outcome.data.v.successfulItems) :
                  outcome.data.v.successfulItems[j].rowNumber = row.rowNumber)
              => \E c \in Range(calls) : c.op = "adjustment"

\* C7: when the name search of a read or an update returns exactly one record,
\* that record's ID is the resolved target: the read result is that record,
\* and every retrieve, adjustment and update call of an update (with each
\* adjustment line) targets that ID.
C7_SingleMatchResolves ==
  (loc.searched /\ Len(loc.items) = 1)
    => /\ operation.operation = "read" =>
            /\ loc.result = ItemResult(loc.items[1])
            /\ ItemCalls = <<>>
            /\ pc = "done" =>
                 outcome.success /\ outcome.data = ItemResult(loc.items[1])
       /\ operation.operation = "update" =>
            /\ loc.itemId = Str(loc.items[1].id)
            /\ \A c \in Range(ItemCalls) :
                 /\ c.itemId = Str(loc.items[1].id)
                 /\ c.op = "adjustment" =>
                      \A n \in 1..Len(c.body.f.lines) :
                        c.body.f.lines[n].itemId = Str(loc.items[1].id)

C7_Witness ==
  /\ pc = "done"
  /\ operation.operation = "update"
  /\ loc.searched
  /\ Len(loc.items) = 1
  /\ loc.items[1].id = "I2"
  /\ Len(CallsOf(calls, "retrieve")) = 1
  /\ Len(CallsOf(calls, "adjustment")) = 1
  /\ Len(CallsOf(calls, "update")) = 1
  /\ outcome.success

\* C8: when the name search of a read or an update returns N > 1 records, the
\* reply lists exactly N entries, numbered 1..N, in the order returned, and
\* the request ends there: one list call, and no retrieve, adjustment, update
\* or create call.
C8_MultipleMatchesEnumerated ==
  (loc.searched /\ Len(loc.items) > 1)
    => /\ pc = "done"
       /\ outcome.reply.kind = "multiple-matches"
       /\ Len(outcome.reply.entries) = Len(loc.items)
       /\ \A i \in 1..Len(loc.items) :
            /\ outcome.reply.entries[i].idx = i
            /\ outcome.reply.entries[i].id = loc.items[i].id
            /\ outcome.reply.entries[i].name = loc.items[i].name
       /\ Len(GatewayCalls(calls)) = 1
       /\ Len(CallsOf(calls, "list")) = 1

C8_Witness ==
  /\ pc = "done"
  /\ operation.operation = "update"
  /\ loc.searched
  /\ Len(loc.items) = 3
  /\ loc.items[1].id = "I3"
  /\ Len(outcome.reply.entries) = 3

\* C9: when the name search of a read or an update returns no record, the
\* outcome is not-found, the reply quotes the searched name as given, and no
\* gateway call other than the one search is issued.
C9_NoMatchIsNotFound ==
  (loc.searched /\ Len(loc.items) = 0)
    => /\ pc = "done"
       /\ ~outcome.success
       /\ outcome.error = Str("Item not found")
       /\ outcome.reply.kind = "not-found"
       /\ outcome.reply.term = operation.itemName
       /\ Len(GatewayCalls(calls)) = 1
       /\ Len(CallsOf(calls, "list")) = 1

C9_Witness ==
  /\ pc = "done"
  /\ operation.operation = "read"
  /\ operation.itemName = Str("Bolt")
  /\ loc.searched
  /\ Len(loc.items) = 0
  /\ outcome.reply.term = Str("Bolt")

\* C10: a name search with several matches ends in a needs-more-input outcome
\* that is not an error, for update as for read: the reply is successful and
\* carries no error.
C10_AmbiguousIsNotAnError ==
  (pc = "done" /\ loc.searched /\ Len(loc.items) > 1)
    => outcome.success /\ outcome.error = Undef

\* the calls that a thrown error message stems from
FailedOp(error) ==
  CASE error = Str("retrieve failed") -> "retrieve"
    [] error = Str("create failed") -> "create"
    [] error = Str("adjustment failed") -> "adjustment"
    [] error \in {Str("update failed"), Str(RevisionConflict)} -> "update"
    [] error = Str("list failed") -> "list"
    [] OTHER -> "none"

C12_StaleRevisionRetried ==
  \A r \in Requests :
    (race.req[r].pc = "done" /\ race.req[r].error = Str(RevisionConflict))
      => /\ Len(CallsOf(race.req[r].calls, "retrieve")) >= 2
         /\ Len(CallsOf(race.req[r].calls, "update")) >= 2

\* C13: without CONDUCTOR_END_USER_ID no entry point makes a remote call, a
\* gateway call or a classifier call: processChatMessage returns its
\* not-configured failure, the routes answer with a failure, and listAccounts
\* throws.
C13_NoRemoteCallWithoutEndUser ==
  (env.endUserId = Undef \/ env.endUserId = Str(""))
    => /\ calls = <<>>
       /\ rest.calls = <<>>
       /\ pc \in {"idle", "done"}
       /\ pc = "done" =>
            /\ ~outcome.success
            /\ outcome.error = Str("CONDUCTOR_END_USER_ID not configured")
       /\ rest.pc \in {"idle", "done", "thrown"}
       /\ rest.pc = "thrown" <=> rest.request.entry = "listAccounts"
       /\ rest.pc = "done" =>
            /\ ~rest.response.success
            /\ rest.response.status = 500
            /\ rest.response.error = Str("QuickBooks configuration is missing")

C13_Witness ==
  /\ env.endUserId = Str("")
  /\ rest.pc = "done"
  /\ rest.request.entry = "healthCheck"
  /\ rest.response.status = 500
  /\ rest.calls = <<>>

\* C14: processChatMessage never lets an exception escape, and every failure
\* it returns carries a reply.
C14_EveryFailureReplies ==
  /\ pc # "thrown"
  /\ (pc = "done" /\ ~outcome.success) => outcome.reply.kind # "none"

\* the request fails the local schema validation of its route
FailsLocalValidation(rq) ==
  \/ /\ rq.entry = "listCustomers"
     /\ ListCustomersSchemaIssues(LimitNumber(rq.limit),
                                  NullToUndef(rq.cursor)) # <<>>
  \/ rq.entry = "getCustomer" /\ GetCustomerSchemaIssues(rq.id) # <<>>
  \/ rq.entry = "updateCustomer" /\ ~Truthy(rq.id)

\* C15: on the routes a request that fails local schema validation is
\* answered with status 400 and is not sent to the remote system.
C15_LocalValidationIs400 ==
  (/\ rest.pc = "done"
   /\ Truthy(env.endUserId)
   /\ FailsLocalValidation(rest.request))
    => rest.response.status = 400 /\ rest.calls = <<>>

\* the file of the request has been parsed
Parsed ==
  /\ input.file # Undef
  /\ Truthy(env.endUserId)
  /\ loc.error = Undef
  /\ pc \in {"done", "row_create", "row_search", "row_get", "row_update"}

\* how many entries of a rows or errors list carry the row number
CountRow(list, rowNumber) ==
  Cardinality({j \in 1..Len(list) : list[j].rowNumber = rowNumber})

\* C16: parseInventoryExcel reports data record i (0-based) under row number
\* i + 2 and puts it in exactly one of rows and errors, once; a record whose
\* action is absent or outside create and update (in any letter case) is an
\* error and not a row; the records after an invalid one are still parsed.
C16_RowFailuresIsolated ==
  LET jsonData == input.file.rows
      parseResult == bulk.parseResult
  IN Parsed
       => /\ Len(parseResult.rows) + Len(parseResult.errors) = Len(jsonData)
          /\ \A i \in 1..Len(jsonData) :
               /\ CountRow(parseResult.rows, i + 1)
                    + CountRow(parseResult.errors, i + 1) = 1
               /\ (\/ ~Truthy(jsonData[i].action)
                   \/ LowerTrim(jsonData[i].action.v) \notin {"create", "update"})
                    => CountRow(parseResult.errors, i + 1) = 1
          /\ \A j \in 1..Len(parseResult.rows) :
               /\ parseResult.rows[j].action \in {"create", "update"}
               /\ parseResult.rows[j].action =
                    LowerTrim(jsonData[parseResult.rows[j].rowNumber - 1].action.v)

C16_Witness ==
  /\ Parsed
  /\ Len(input.file.rows) = 2
  /\ input.file.rows[1].action = Str("DELETE")
  /\ input.file.rows[2].action = Str("Update")
  /\ bulk.parseResult.errors = <<[rowNumber |-> 2, error |-> "Invalid action"]>>
  /\ Len(bulk.parseResult.rows) = 1
  /\ bulk.parseResult.rows[1].rowNumber = 3

\* C17: a create record yields a row iff it has a name and the three account
\* references, and otherwise exactly one error under its row number and no
\* row; an update record with neither ItemId nor Name yields exactly one
\* error under its row number and no row.
C17_RowRequiredFields ==
  LET jsonData == input.file.rows
      parseResult == bulk.parseResult
  IN Parsed
       => \A i \in 1..Len(jsonData) :
            LET record == jsonData[i]
                action == IF Truthy(record.action)
                          THEN LowerTrim(record.action.v) ELSE ""
                complete == /\ Truthy(record.name)
                            /\ Truthy(record.incomeAccountId)
                            /\ Truthy(record.cogsAccountId)
                            /\ Truthy(record.assetAccountId)
            IN /\ (action = "create" /\ complete)
                    => /\ CountRow(parseResult.rows, i + 1) = 1
                       /\ CountRow(parseResult.errors, i + 1) = 0
               /\ (action = "create" /\ ~complete)
                    => /\ CountRow(parseResult.rows, i + 1) = 0
                       /\ CountRow(parseResult.errors, i + 1) = 1
               /\ (/\ action = "update"
                   /\ ~Truthy(record.itemId)
                   /\ ~Truthy(record.name))
                    => /\ CountRow(parseResult.rows, i + 1) = 0
                       /\ CountRow(parseResult.errors, i + 1) = 1

C17_Witness ==
  /\ Parsed
  /\ Len(input.file.rows) = 2
  /\ input.file.rows[1].action = Str("CREATE")
  /\ ~Truthy(input.file.rows[1].cogsAccountId)
  /\ Truthy(input.file.rows[1].name)
  /\ input.file.rows[2].action = Str("Update")
  /\ ~Truthy(input.file.rows[2].itemId)
  /\ ~Truthy(input.file.rows[2].name)
  /\ Len(bulk.parseResult.errors) = 2
  /\ bulk.parseResult.rows = <<>>

\* the body of a call holds a value under the key
Carries(body, k) == k \in DOMAIN body.f /\ body.f[k].t # "undefined"

\* C18: no updateInventoryItem call carries quantityOnHand, in the chat
\* branch or in the bulk branch; a quantity change requested in chat is sent
\* as one adjustment with the single line {itemId, newQuantity} against the
\* configured adjustment account.
C18_QuantityNeverInUpdate ==
  /\ \A c \in Range(calls) :
       /\ c.op = "update" => ~Carries(c.body, "quantityOnHand")
       /\ c.op = "adjustment" =>
            /\ Truthy(env.adjustmentAccountId)
            /\ c.body.f.accountId = env.adjustmentAccountId
            /\ c.body.f.lines =
                 <<[itemId |-> loc.itemId,
                    newQuantity |-> operation.data.f.quantityOnHand]>>
  /\ (/\ pc = "done"
      /\ outcome.success
      /\ operation.operation = "update"
      /\ Present(Get(operation.data, "quantityOnHand")))
       => Len(CallsOf(calls, "adjustment")) = 1

C18_Witness ==
  /\ pc = "done"
  /\ outcome.success
  /\ operation.operation = "update"
  /\ Get(operation.data, "quantityOnHand") = Num(5)
  /\ Get(operation.data, "salesPrice") = Str("55.00")
  /\ Len(CallsOf(calls, "adjustment")) = 1
  /\ Len(CallsOf(calls, "update")) = 1
  /\ Carries(CallsOf(calls, "update")[1].body, "salesPrice")

\* the retrieve calls before position i of the log that returned the item
\* the call at position i is about
FetchesBefore(log, i) ==
  {j \in 1..(i - 1) : /\ log[j].op = "retrieve"
                      /\ log[j].itemId = log[i].itemId
                      /\ log[j].result # Undef}

\* C19: every updateInventoryItem call of a request, chat or bulk, carries
\* the revision number that the request's latest getInventoryItem call for
\* the same item returned; a revision number given by the caller or by the
\* classifier is never sent.
C19_UpdateCarriesFetchedRevision ==
  \A i \in 1..Len(calls) :
    calls[i].op = "update"
      => /\ FetchesBefore(calls, i) # {}
         /\ \A j \in FetchesBefore(calls, i) :
              (\A k \in FetchesBefore(calls, i) : k <= j)
                => calls[i].body.f.revisionNumber = calls[j].result.revisionNumber

C19_Witness ==
  /\ pc = "done"
  /\ input.file # Undef
  /\ Len(CallsOf(calls, "update")) = 2
  /\ CallsOf(calls, "update")[1].itemId = Str("I1")
  /\ CallsOf(calls, "update")[2].itemId = Str("I1")
  /\ CallsOf(calls, "update")[1].body.f.revisionNumber = Str("1")
  /\ CallsOf(calls, "update")[2].body.f.revisionNumber = Str("2")
  /\ outcome.success

\* the positions of the remote's log at which it served a write
Writes == {i \in 1..Len(race.log) : race.log[i].op \in {"update", "adjustment"}}

\* both requests fetched the item before either of them wrote
BothFetchedFirst ==
  \A i \in Writes : \A r \in Requests :
    \E j \in 1..(i - 1) : race.log[j] = Served(r, "retrieve", TRUE)

\* the updateInventoryItem calls of request r that the remote served with ok
UpdatesServed(r, ok) ==
  {i \in 1..Len(race.log) : race.log[i] = Served(r, "update", ok)}

ListCalls == CallsOf(calls, "list")

\* the records of the pages that a sequence of list calls returned, in order
RECURSIVE Flatten(_)
Flatten(cs) ==
  IF cs = <<>> THEN <<>> ELSE Head(cs).result.data \o Flatten(Tail(cs))

NameAndStatusFilters == {"nameContains", "nameStartsWith", "nameEndsWith", "status"}

\* C21: a chat list request with an explicit limit fetches a single page (one
\* list call, carrying that limit); without a limit it fetches pages until
\* the remote returns no cursor; the name and status filters are forwarded
\* unchanged on every call and the records returned are exactly those the
\* remote sent.
C21_LimitSelectsTraversal ==
  (pc = "done" /\ operation.operation = "list" /\ outcome.success)
    => LET limit == Get(operation.filters, "limit")
       IN /\ Present(limit)
               => /\ Len(ListCalls) = 1
                  /\ ListCalls[1].body.f.limit = limit
          /\ ~Present(limit)
               => ~Truthy(ListCalls[Len(ListCalls)].result.nextCursor)
          /\ \A i \in 1..Len(ListCalls) : \A k \in NameAndStatusFilters :
               ListCalls[i].body.f[k] = NullToUndef(Get(operation.filters, k))
          /\ outcome.data.v = Flatten(ListCalls)

\* the cursor chain of a fetchAll traversal: the first call has no cursor,
\* every later call has the cursor the previous page returned, the loop goes
\* on only after a page with a cursor, and the value returned holds the
\* pages' records in page order with nextCursor undefined
FetchAllFollowsCursors ==
  (operation.operation = "list" /\ FetchAll(operation))
    => /\ \A i \in 1..Len(ListCalls) :
            IF i = 1
            THEN ListCalls[i].body.f.cursor = Undef
            ELSE /\ ListCalls[i - 1].result # Undef
                 /\ Truthy(ListCalls[i - 1].result.nextCursor)
                 /\ ListCalls[i].body.f.cursor = ListCalls[i - 1].result.nextCursor
       /\ (pc = "list" /\ ListCalls # <<>>)
            => Truthy(ListCalls[Len(ListCalls)].result.nextCursor)
       /\ (pc = "done" /\ outcome.success)
            => /\ ~Truthy(ListCalls[Len(ListCalls)].result.nextCursor)
               /\ outcome.data.v = Flatten(ListCalls)
               /\ outcome.data.nextCursor = Undef

\* every awaited list call settles: it returns a page or it throws
ListSpec == Spec /\ WF_vars(ListInventoryItems)

\* C22: listInventoryItems with fetchAll, against a remote whose pages are
\* chained by cursors, issues one list call per page, each with the cursor
\* of the previous page, stops at the first page without a cursor and
\* returns the concatenation of the pages in page order with nextCursor
\* undefined; the traversal ends once the remote returns a page without a
\* cursor.
C22_FetchAllTraversal ==
  /\ []FetchAllFollowsCursors
  /\ (pc = "list") ~> (pc # "list")

C22_Witness ==
  /\ pc = "done"
  /\ operation.operation = "list"
  /\ FetchAll(operation)
  /\ outcome.success
  /\ Len(ListCalls) = MaxPages
  /\ outcome.data.v = <<Item("I1", 1), Item("I2", 1)>>
  /\ ListCalls[1].result.data = <<Item("I1", 1)>>

\* C23: a list call that fails during a fetchAll traversal is the request's
\* last list call, the failure reaches the handler's catch block, and the
\* request ends without success and without data: the records of the
\* earlier pages are not returned.
C23_FailedTraversalReturnsNothing ==
  (operation.operation = "list" /\ FetchAll(operation))
    => \A i \in 1..Len(ListCalls) :
         ListCalls[i].result = Undef
           => /\ i = Len(ListCalls)
              /\ pc \in {"catch", "thrown", "done"}
              /\ loc.error = Str("list failed")
              /\ pc = "done" => /\ ~outcome.success
                                /\ outcome.data = Undef
                                /\ loc.result = Undef

C23_Witness ==
  /\ pc = "done"
  /\ operation.operation = "list"
  /\ FetchAll(operation)
  /\ Len(ListCalls) = 2
  /\ ListCalls[1].result # Undef
  /\ ListCalls[1].result.data # <<>>
  /\ ListCalls[2].result = Undef
  /\ ~outcome.success

\* the aliases of the lookup that name a column with a non-empty cell
ExactAliases ==
  {i \in 1..Len(lookup.possibleNames) :
     NonEmpty(CellOf(lookup.row, lookup.possibleNames[i]))}

\* the columns of the record whose header is an alias up to case and
\* surrounding blanks
AliasColumns ==
  {j \in 1..Len(lookup.row) :
     \E i \in 1..Len(lookup.possibleNames) :
       Normalize(lookup.row[j].key) = Normalize(lookup.possibleNames[i])}

Least(S) == CHOOSE x \in S : \A y \in S : x <= y

\* C24: the column lookup returns the trimmed cell of the first alias, in
\* list order, that names a column with a non-empty cell; failing that, the
\* trimmed cell of the first column of the record whose lower-cased, trimmed
\* header equals a lower-cased alias and whose cell is non-empty; otherwise
\* nothing.  Columns that match no alias do not change the result.
C24_AliasLookup ==
  lookup.pc = "returned"
    => LET normalized == {j \in AliasColumns : NonEmpty(lookup.row[j].value)}
           aliasOnly == SelectSeq(lookup.row,
                          LAMBDA c : \E i \in 1..Len(lookup.possibleNames) :
                            Normalize(c.key) = Normalize(lookup.possibleNames[i]))
       IN /\ ExactAliases # {}
               => lookup.value =
                    Str(StringTrim(CellOf(lookup.row,
                          lookup.possibleNames[Least(ExactAliases)])))
          /\ (ExactAliases = {} /\ normalized # {})
               => lookup.value = Str(StringTrim(lookup.row[Least(normalized)].value))
          /\ (ExactAliases = {} /\ normalized = {}) => lookup.value = Undef
          /\ lookup.value = GetColumnValue(aliasOnly, lookup.possibleNames)

C24_Witness ==
  /\ lookup.pc = "returned"
  /\ lookup.row = <<Column("Qty", Num(3)), Column(" QUANTITY ", Str(" 7 ")),
                    Column("Quantity", Str(""))>>
  /\ lookup.value = Str("7")

WriteOps == {"create", "update", "adjustment"}

\* C25: in a chat update request no write of the request lies between the
\* getInventoryItem call that supplies the revision number and the
\* updateInventoryItem call that sends it, so that without another writer
\* the update is never rejected for a stale revision, also when quantity
\* and other fields change together.
C25_NoWriteBetweenFetchAndUpdate ==
  (input.file = Undef /\ operation.operation = "update")
    => /\ \A i \in 1..Len(calls) :
            calls[i].op = "update"
              => \A j \in FetchesBefore(calls, i) : \A k \in (j + 1)..(i - 1) :
                   calls[k].op \notin WriteOps
       /\ loc.error # Str(RevisionConflict)

\* C26: a chat update request that ends with the outcome 'Validation failed'
\* or 'Invalid adjustment data' has created no adjustment and has updated no
\* item.
C26_ValidationFailureWritesNothing ==
  (/\ pc = "done"
   /\ input.file = Undef
   /\ operation.operation = "update"
   /\ outcome.error \in {Str("Validation failed"), Str("Invalid adjustment data")})
    => \A i \in 1..Len(calls) : calls[i].op \notin WriteOps

\* C27: the result of the bulk row loop satisfies successful + failed = total
\* and created + updated = successful, lists one error per failed row and
\* one success entry per successful row, names every row number at most once
\* in the two lists together, and reports success exactly when no row
\* failed.
C27_BatchResultConsistent ==
  (pc = "done" /\ outcome.data # Undef /\ outcome.data.t = "results")
    => LET results == outcome.data.v
       IN /\ results.total = Len(bulk.parseResult.rows)
          /\ results.successful + results.failed = results.total
          /\ results.created + results.updated = results.successful
          /\ Len(results.errors) = results.failed
          /\ Len(results.successfulItems) = results.successful
          /\ \A j \in 1..Len(bulk.parseResult.rows) :
               CountRow(results.errors, bulk.parseResult.rows[j].rowNumber)
                 + CountRow(results.successfulItems,
                            bulk.parseResult.rows[j].rowNumber) = 1
          /\ outcome.success <=> results.failed = 0

C27_Witness ==
  /\ pc = "done"
  /\ outcome.data # Undef
  /\ outcome.data.t = "results"
  /\ outcome.data.v.total = 2
  /\ outcome.data.v.created = 1
  /\ outcome.data.v.updated = 0
  /\ outcome.data.v.failed = 1
  /\ outcome.data.v.errors = <<[rowNumber |-> 3, error |-> "update failed"]>>
  /\ ~outcome.success

RowSteps == {"row_create", "row_search", "row_get", "row_update"}

\* the row of the step has been recorded as failed by the step
RowFailedNow == Len(bulk'.results.errors) > Len(bulk.results.errors)

\* a step of the row loop: it makes one call and never goes back; a name
\* search that returns no record or several records an error under the row's
\* number; a step that records an error moves the loop past the row, and the
\* loop ends only after the last row
RowStepIsolated ==
  pc \in RowSteps
    => LET row == CurrentRow(bulk)
           call == calls'[Len(calls')]
       IN /\ Len(calls') = Len(calls) + 1
          /\ bulk'.i >= bulk.i
          /\ (pc = "row_search" /\ call.result # Undef
                /\ Len(call.result.data) # 1)
               => /\ call.op = "list"
                  /\ RowFailedNow
                  /\ bulk'.results.errors[Len(bulk.results.errors) + 1].rowNumber
                       = row.rowNumber
                  /\ CountRow(bulk'.results.errors, row.rowNumber) = 1
                  /\ CountRow(bulk'.results.successfulItems, row.rowNumber) = 0
          /\ RowFailedNow
               => /\ bulk'.i > bulk.i
                  /\ pc' \in RowSteps \cup {"done"}
                  /\ pc' \in RowSteps => bulk'.i <= Len(bulk'.parseResult.rows)
                  /\ pc' = "done" => bulk'.i = Len(bulk'.parseResult.rows) + 1

\* C28: in a bulk upload, a name search for an update row that returns no
\* record or more than one records one error under the row's number and
\* moves the loop past the row with no retrieve or update call for it;
\* whenever a remote call for a row fails, the later rows are still
\* processed.
C28_RowErrorsDoNotStopTheLoop == [][RowStepIsolated]_vars

C28_Witness ==
  /\ pc = "done"
  /\ input.file # Undef
  /\ outcome.data # Undef
  /\ outcome.data.t = "results"
  /\ Len(input.file.rows) = 2
  /\ input.file.rows[1] = RawRow(Str("Update"), Undef, Str("Widget"), Undef,
                                 Str("abc"), Undef)
  /\ input.file.rows[2].action = Str("CREATE")
  /\ outcome.data.v.errors = <<[rowNumber |-> 2, error |-> "Multiple items found"]>>
  /\ outcome.data.v.created = 1
  /\ Len(calls) = 2
  /\ calls[1].op = "list"
  /\ Len(calls[1].result.data) = 2
  /\ calls[2].op = "create"

\* the request ended on the classifier's answer 'unknown'
EndedUnknown == pc = "done" /\ operation.operation = "unknown"

\* C29 as stated: an operation classified as 'unknown' ends the request with
\* success false and one fixed rephrase prompt, whatever the classifier
\* returned with it.
C29_UnknownReplyIsFixed ==
  EndedUnknown
    => /\ ~outcome.success
       /\ outcome.reply = Reply("rephrase", Str(RephraseQuestion), <<>>, <<>>)

\* C29: an operation classified as 'unknown' makes no gateway call and no
\* phrasing call: the classifier call is the request's only call; the
\* request returns success false with the error 'Could not understand the
\* request' and the locally built rephrase reply, which shows the
\* classifier's intent when it gave one and the fixed question otherwise.
C29_UnknownMakesNoCall ==
  EndedUnknown
    => /\ calls = <<Call("classify", Undef, Undef)>>
       /\ ~outcome.success
       /\ outcome.error = Str("Could not understand the request")
       /\ outcome.data = Undef
       /\ outcome.reply.kind = "rephrase"
       /\ outcome.reply.term =
            IF operation.intent \in {Undef, Null, Str("")}
            THEN Str(RephraseQuestion) ELSE operation.intent

C29_Witness ==
  /\ EndedUnknown
  /\ operation.intent = Str("You want to delete an item")
  /\ outcome.reply.term = Str("You want to delete an item")
  /\ Len(calls) = 1

\* the positions of the handler's text branch
TextSteps ==
  {"classify", "list", "read_search", "read_get", "create", "update_search",
   "update_get", "update_adjust", "update_item", "respond"}

\* most gateway calls the row loop makes for one row: search, retrieve, update
MaxCallsPerRow == 3

\* C30: a request that carries a file takes the file branch whatever its
\* text: the classifier is never called and no operation is parsed, the
\* request is at no step of the text branch and never ends with 'No message
\* or file provided', and its gateway calls are those of the rows parsed
\* from the file, none when no row was parsed.
C30_FileTakesPrecedence ==
  input.file # Undef
    => /\ CallsOf(calls, "classify") = <<>>
       /\ operation = NoOperation
       /\ pc \notin TextSteps
       /\ outcome.error # Str("No message or file provided")
       /\ \A i \in 1..Len(calls) :
            calls[i].op \in {"create", "list", "retrieve", "update", "phrase"}
       /\ Len(GatewayCalls(calls))
            <= MaxCallsPerRow * Len(bulk.parseResult.rows)
       /\ GatewayCalls(calls) # <<>>
            => /\ bulk.i >= 1
               /\ Len(GatewayCalls(calls)) <= MaxCallsPerRow * bulk.i

C30_Witness ==
  /\ pc = "done"
  /\ input.file # Undef
  /\ input.message = Str("text")
  /\ outcome.data # Undef
  /\ outcome.data.t = "results"
  /\ outcome.data.v.updated = 1
  /\ Len(GatewayCalls(calls)) = 3
  /\ outcome.success

====
